---- MODULE Spec2Model ----
(***************************************************************************)
(* Model of the ResearchAgent browser client (static/js/app.js): the       *)
(* content formatter, the keyword highlighter, the handlers that display   *)
(* a report and toggle its highlights, the research form with its          *)
(* progress indicator, and the sidebar with its debounced search.          *)
(*                                                                         *)
(* Strings are sequences of one-character strings, so that the regular     *)
(* expressions of the source are modelled by what they match, character    *)
(* by character.                                                           *)
(***************************************************************************)
EXTENDS Integers, Sequences, FiniteSets, TLC

VARIABLES
    currentReport,      \* this.currentReport: 0 (null) or an index of Reports
    highlightsEnabled,  \* this.highlightsEnabled
    keywords,           \* this.keywords: Null or Some(keyword set)
    originalContent,    \* this.originalContent: Undefined or Some(string)
    originalSummary,    \* this.originalSummary: Undefined or Some(string)
    contentEl,          \* markup of #report-content
    summaryEl,          \* #report-summary: [mode |-> "text" | "html", s |-> string]
    btnText,            \* text of #highlight-btn-text
    pendingKeywords,    \* suspended toggleHighlights calls: report id each one fetches
    pendingLoads,       \* report ids of the loadReport requests in flight
    ev,                 \* history: the handler that ran last and what it did
    kwFor,              \* history: report id the cached keyword set was fetched for
    snap,               \* history: the display when highlighting was last enabled
    firstHL,            \* history: per report id, what the first enabling displayed
    fmtIn, fmtOut,      \* formatter run: input, and Pending or Some(output)
    hlIn, hlOut,        \* highlighter run: input, and Pending or Some(output)
    reports,            \* this.reports: Some(list of report ids) or Undefined
    currentFilter,      \* this.currentFilter: "all" or "favorites"
    searchQuery,        \* this.searchQuery
    searchTimeout,      \* this.searchTimeout: Null or Some(timer id)
    timeouts,           \* the debounce timers that are set: [id, left]
    idle,               \* history: time since the last handleSearch call
    searchInput,        \* value of #search-input
    clearShown,         \* #search-clear is displayed
    searchActive,       \* .sidebar has the class search-active
    listEl,             \* what #reports-list shows
    pendingLists,       \* loadReports requests in flight, per filter
    pendingSearches,    \* /api/search requests in flight, per query
    sh,                 \* history: the last search handler and the bursts so far
    titleEl,            \* text of #report-title: Null or Some(title)
    wordCountEl,        \* text of #report-word-count: Null or Some(number)
    sourceCountEl,      \* text of #report-source-count: Null or Some(number)
    sourcesList,        \* the items of #sources-list
    reportShown,        \* #report-display has the class active
    bookmarkActive,     \* #bookmark-btn has the class active
    topicInput,         \* value of #topic-input
    submitBtn,          \* #submit-btn: [disabled, label]
    progressActive,     \* #progress-container has the class active
    stepClasses,        \* per progress step, its classes among active, completed
    progressInterval,   \* this.progressInterval: Undefined or Some(timer id)
    intervals,          \* the interval timers that are set: [id, currentStep]
    pendingResearch,    \* the /api/research request in flight: Null or Some(topic)
    rh,                 \* history: the research attempt under way or just over
    lw,                 \* history: the successful report response handled last
    darkMode,           \* document.body has the class dark-mode
    theme,              \* localStorage item 'theme': Null or Some("dark" | "light")
    th,                 \* history: the last theme step and the toggles so far
    pendingExports,     \* export requests in flight: <<report id, format>>
    pendingBookmarks,   \* report ids of the favorite requests in flight
    pendingHistory,     \* report ids of the versions requests in flight
    historyActive,      \* #history-modal and #history-overlay have the class active
    historyTimeline,    \* what #history-timeline shows: Null or Some(versions)
    dashboardActive,    \* #dashboard-modal has the class active
    pendingAnalytics,   \* /api/analytics requests in flight
    dashboardEl         \* the dashboard's own elements: Null or Some(analytics shown)

reportEls == <<titleEl, wordCountEl, sourceCountEl, sourcesList, reportShown,
               bookmarkActive>>

researchVars == <<topicInput, submitBtn, progressActive, stepClasses,
                  progressInterval, intervals, pendingResearch, rh, lw>>

searchVars == <<reports, currentFilter, searchQuery, searchTimeout, timeouts,
                idle, searchInput, clearShown, searchActive, listEl,
                pendingLists, pendingSearches, sh>>

themeVars == <<darkMode, theme, th>>

toolVars == <<pendingExports, pendingBookmarks, pendingHistory, historyActive,
              historyTimeline>>

dashboardVars == <<dashboardActive, pendingAnalytics, dashboardEl>>

extraVars == <<themeVars, toolVars, dashboardVars>>

vars == <<currentReport, highlightsEnabled, keywords, originalContent,
          originalSummary, contentEl, summaryEl, btnText, pendingKeywords,
          pendingLoads, ev, kwFor, snap, firstHL, fmtIn, fmtOut, hlIn, hlOut,
          searchVars, reportEls, researchVars, extraVars>>

uiVars == <<currentReport, highlightsEnabled, keywords, originalContent,
            originalSummary, contentEl, summaryEl, btnText, pendingKeywords,
            pendingLoads, ev, kwFor, snap, firstHL, reportEls>>

-----------------------------------------------------------------------------
(* Bounds *)

MaxTokens == 3      \* tokens in a formatter input
MaxWords == 2       \* tokens in a highlighter text
MaxTerms == 2       \* terms in a keyword set, over its three lists
MaxPending == 2     \* keyword requests in flight at once; list and search requests
MaxTimers == 2      \* debounce timers set at once

-----------------------------------------------------------------------------
(* Strings *)

\* A value that may be missing is a sequence of at most one element.
Null == <<>>
Undefined == <<>>
Pending == <<>>
Some(x) == <<x>>

\* x || [], of a list that may be missing
orEmptyList(x) == IF x = <<>> THEN <<>> ELSE x[1]

Min(S) == CHOOSE x \in S : \A y \in S : x <= y

StartsWithAt(s, i, p) ==
    /\ i >= 1
    /\ i + Len(p) - 1 <= Len(s)
    /\ \A k \in 1..Len(p) : s[i + k - 1] = p[k]

StartsWith(s, p) == StartsWithAt(s, 1, p)

EndsWith(s, p) == StartsWithAt(s, Len(s) - Len(p) + 1, p)

RECURSIVE Flatten(_)
Flatten(ss) == IF ss = <<>> THEN <<>> ELSE Head(ss) \o Flatten(Tail(ss))

RECURSIVE Join(_, _)
Join(ss, sep) ==
    IF ss = <<>> THEN <<>>
    ELSE IF Len(ss) = 1 THEN Head(ss)
    ELSE Head(ss) \o sep \o Join(Tail(ss), sep)

NL == "\n"

H2Open == <<"<", "h", "2", ">">>
H2Close == <<"<", "/", "h", "2", ">">>
H3Open == <<"<", "h", "3", ">">>
H3Close == <<"<", "/", "h", "3", ">">>
StrongOpen == <<"<", "s", "t", "r", "o", "n", "g", ">">>
StrongClose == <<"<", "/", "s", "t", "r", "o", "n", "g", ">">>
POpen == <<"<", "p", ">">>
PClose == <<"<", "/", "p", ">">>

-----------------------------------------------------------------------------
(* formatContent *)

\* Index of the last character of the line that position i is on
\* (i - 1 when position i holds the line terminator itself).
LineEnd(s, i) ==
    LET nl == {k \in i..Len(s) : s[k] = NL}
    IN  IF nl = {} THEN Len(s) ELSE Min(nl) - 1

\* ^ of a multiline regular expression
AtLineStart(s, i) == i = 1 \/ s[i - 1] = NL

\* /^## (.+)$/m matches at position i: a line start, the prefix, and at
\* least one more character of the line; the match runs to the line's end.
headerAt(s, i, prefix) ==
    /\ AtLineStart(s, i)
    /\ StartsWithAt(s, i, prefix)
    /\ LineEnd(s, i) >= i + Len(prefix)

\* html.replace(/^## (.+)$/gm, '<h2>$1</h2>') and its level-3 twin, from
\* position i on: the leftmost match is replaced, the scan goes on after it.
RECURSIVE replaceHeader(_, _, _, _, _)
replaceHeader(s, i, prefix, open, close) ==
    LET M == {j \in i..Len(s) : headerAt(s, j, prefix)}
    IN  IF M = {} THEN SubSeq(s, i, Len(s))
        ELSE LET j == Min(M)
                 e == LineEnd(s, j)
             IN  SubSeq(s, i, j - 1)
                     \o open \o SubSeq(s, j + Len(prefix), e) \o close
                     \o replaceHeader(s, e + 1, prefix, open, close)

replaceH2(s) == replaceHeader(s, 1, <<"#", "#", " ">>, H2Open, H2Close)

replaceH3(s) == replaceHeader(s, 1, <<"#", "#", "#", " ">>, H3Open, H3Close)

Stars == <<"*", "*">>

\* html.replace(/\*\*(.+?)\*\*/g, '<strong>$1</strong>'): the lazy group takes
\* at least one character, none of them a line terminator, up to the nearest
\* closing pair of stars.
boldEnds(s, i) ==
    {j \in (i + 3)..(Len(s) - 1) :
        /\ StartsWithAt(s, j, Stars)
        /\ \A k \in (i + 2)..(j - 1) : s[k] # NL}

boldAt(s, i) == StartsWithAt(s, i, Stars) /\ boldEnds(s, i) # {}

RECURSIVE replaceBold(_, _)
replaceBold(s, i) ==
    LET M == {j \in i..Len(s) : boldAt(s, j)}
    IN  IF M = {} THEN SubSeq(s, i, Len(s))
        ELSE LET b == Min(M)
                 j == Min(boldEnds(s, b))
             IN  SubSeq(s, i, b - 1)
                     \o StrongOpen \o SubSeq(s, b + 2, j - 1) \o StrongClose
                     \o replaceBold(s, j + 2)

\* html.split('\n\n'): leftmost, non-overlapping separators
RECURSIVE split(_, _)
split(s, i) ==
    LET M == {j \in i..Len(s) : StartsWithAt(s, j, <<NL, NL>>)}
    IN  IF M = {} THEN <<SubSeq(s, i, Len(s))>>
        ELSE <<SubSeq(s, i, Min(M) - 1)>> \o split(s, Min(M) + 2)

\* the callback of paragraphs.map, with p.trim() in place of p
wrapParagraph_skipBlank(p) ==
    IF StartsWith(p, <<"<", "h">>) THEN p
    ELSE IF \A k \in 1..Len(p) : p[k] \in {" ", NL} THEN POpen \o PClose
    ELSE POpen \o p \o PClose

\* the callback of paragraphs.map
wrapParagraph(p) ==
    IF StartsWith(p, <<"<", "h">>) THEN p ELSE POpen \o p \o PClose

formatContent(content) ==
    LET html1 == replaceH2(content)
        html2 == replaceH3(html1)
        html3 == replaceBold(html2, 1)
        paragraphs == split(html3, 1)
    IN  Join([k \in 1..Len(paragraphs) |-> wrapParagraph(paragraphs[k])], <<NL>>)

-----------------------------------------------------------------------------
(* applyHighlights: the regular expressions *)

EntityOpen == <<"<", "s", "p", "a", "n", " ", "c", "l", "a", "s", "s", "=", "\"", "e", "n", "t", "i", "t", "y", "-", "h", "i", "g", "h", "l", "i", "g", "h", "t", "\"", ">">>
TechnicalOpen == <<"<", "s", "p", "a", "n", " ", "c", "l", "a", "s", "s", "=", "\"", "t", "e", "c", "h", "n", "i", "c", "a", "l", "-", "h", "i", "g", "h", "l", "i", "g", "h", "t", "\"", ">">>
KeywordOpen == <<"<", "s", "p", "a", "n", " ", "c", "l", "a", "s", "s", "=", "\"", "k", "e", "y", "w", "o", "r", "d", "-", "h", "i", "g", "h", "l", "i", "g", "h", "t", "\"", ">">>
SpanClose == <<"<", "/", "s", "p", "a", "n", ">">>

LowerCase == <<"a", "b", "c", "d", "e", "f", "g", "h", "i", "j", "k", "l", "m",
               "n", "o", "p", "q", "r", "s", "t", "u", "v", "w", "x", "y", "z">>
UpperCase == <<"A", "B", "C", "D", "E", "F", "G", "H", "I", "J", "K", "L", "M",
               "N", "O", "P", "Q", "R", "S", "T", "U", "V", "W", "X", "Y", "Z">>
Digits == {"0", "1", "2", "3", "4", "5", "6", "7", "8", "9"}

Range(f) == {f[k] : k \in DOMAIN f}

LowerChars == Range(LowerCase)

ToUpper == [c \in LowerChars |-> UpperCase[CHOOSE k \in DOMAIN LowerCase : LowerCase[k] = c]]

\* the i flag: characters are compared by their upper-case form
Canonicalize(c) == IF c \in LowerChars THEN ToUpper[c] ELSE c

WordChars == Range(LowerCase) \cup Range(UpperCase) \cup Digits \cup {"_"}

\* \w
IsWordChar(c) == c \in WordChars

\* the character class of escapeRegex: . * + ? ^ $ { } ( ) | [ ] \
RegexMeta == {".", "*", "+", "?", "^", "$", "{", "}", "(", ")", "|", "[", "]", "\\"}

RECURSIVE escapeRegex(_)
escapeRegex(string) ==
    IF string = <<>> THEN <<>>
    ELSE (IF Head(string) \in RegexMeta THEN <<"\\", Head(string)>>
                                       ELSE <<Head(string)>>)
         \o escapeRegex(Tail(string))

\* The characters a pattern of escaped characters stands for: what
\* new RegExp reads in the group of `\\b(${...})\\b`.
RECURSIVE patternLiteral(_)
patternLiteral(pattern) ==
    IF pattern = <<>> THEN <<>>
    ELSE IF Head(pattern) = "\\" /\ Len(pattern) >= 2
         THEN <<pattern[2]>> \o patternLiteral(Tail(Tail(pattern)))
         ELSE <<Head(pattern)>> \o patternLiteral(Tail(pattern))

\* \b between positions i - 1 and i of s
WordBoundary(s, i) ==
    LET before == i >= 2 /\ i - 1 <= Len(s) /\ IsWordChar(s[i - 1])
        after == i >= 1 /\ i <= Len(s) /\ IsWordChar(s[i])
    IN  before # after

\* \b(lit)\b with the i flag matches at position i of s
matchAt(s, i, lit) ==
    /\ WordBoundary(s, i)
    /\ i + Len(lit) - 1 <= Len(s)
    /\ \A k \in 1..Len(lit) : Canonicalize(s[i + k - 1]) = Canonicalize(lit[k])
    /\ WordBoundary(s, i + Len(lit))

\* text.replace(regex, open + '$1' + '</span>') with the g flag: matches are
\* taken left to right without overlap, each replaced by the matched text
\* between the marker's tags; an empty match moves on by one character.
RECURSIVE replaceAll(_, _, _, _)
replaceAll(s, i, lit, open) ==
    LET M == {j \in i..(Len(s) + 1) : matchAt(s, j, lit)}
    IN  IF M = {} THEN SubSeq(s, i, Len(s))
        ELSE LET j == Min(M)
                 next == IF lit = <<>> THEN j + 1 ELSE j + Len(lit)
             IN  SubSeq(s, i, j - 1)
                     \o open \o SubSeq(s, j, j + Len(lit) - 1) \o SpanClose
                     \o SubSeq(s, j + Len(lit), next - 1)
                     \o replaceAll(s, next, lit, open)

\* one round of a forEach callback: build the regex of the term, replace
highlightTerm(text, term, open) ==
    replaceAll(text, 1, patternLiteral(escapeRegex(term)), open)

\* list.forEach(term => { text = text.replace(...) })
RECURSIVE forEachTerm(_, _, _)
forEachTerm(text, terms, open) ==
    IF terms = <<>> THEN text
    ELSE forEachTerm(highlightTerm(text, Head(terms), open), Tail(terms), open)

\* the three loops in another order: keywords, technical, entities
highlightText_reversed(text, kw) ==
    forEachTerm(forEachTerm(forEachTerm(text, kw.keywords, KeywordOpen),
                            kw.technical, TechnicalOpen),
                kw.entities, EntityOpen)

\* the three loops of applyHighlights over one of its two texts
highlightText(text, kw) ==
    forEachTerm(forEachTerm(forEachTerm(text, kw.entities, EntityOpen),
                            kw.technical, TechnicalOpen),
                kw.keywords, KeywordOpen)

-----------------------------------------------------------------------------
(* The server *)

\* What GET /api/reports/:id returns: two stored reports.
Source_a == [url |-> "https://a.org/1", title |-> "A", source |-> "a.org"]
Source_b == [url |-> "https://b.org/2", title |-> "B", source |-> "b.org"]

Reports == <<
    [id |-> 1,
     title |-> "AI",
     summary |-> <<"A", "I", " ", "m", "l">>,
     content |-> <<"#", "#", " ", "A", "I", "\n", "\n", "m", "l">>,
     word_count |-> 120,
     sources |-> <<Source_a, Source_b>>,
     is_favorite |-> 0],
    [id |-> 2,
     title |-> "ML",
     summary |-> <<"m", "l">>,
     content |-> <<"*", "*", "m", "l", "*", "*", " ", "a", "i">>,
     word_count |-> 80,
     sources |-> <<Source_b>>,
     is_favorite |-> 1] >>

ReportIds == {Reports[r].id : r \in DOMAIN Reports}

NoReport == 0

\* What GET /api/reports/:id/keywords returns for each report.
ServerKeywords(id) ==
    IF id = 1
    THEN [keywords |-> << <<"m", "l">> >>,
          entities |-> << <<"A", "I">> >>,
          technical |-> << >>]
    ELSE [keywords |-> << >>,
          entities |-> << <<"m", "l">> >>,
          technical |-> << <<"A", "I">> >>]

\* How a request can end: a success response, {success: false}, or a
\* rejected fetch.
Outcomes == {"ok", "nosuccess", "error"}

KeywordFields == {"keywords", "entities", "technical"}

\* The fields a success response to the keywords request may lack.
Omissions == {{}, {"entities"}, KeywordFields}

\* data of a success response for the report, without the fields it lacks
KeywordsData(id, missing) ==
    [f \in KeywordFields |->
        IF f \in missing THEN Undefined ELSE Some(ServerKeywords(id)[f])]

-----------------------------------------------------------------------------
(* The page *)

TextNode(s) == [mode |-> "text", s |-> s]

HtmlNode(s) == [mode |-> "html", s |-> s]

\* !x of a string or undefined
Falsy(x) == x = Undefined \/ x = Some(<<>>)

\* markup with its tags taken out
RECURSIVE stripTags(_, _)
stripTags(s, i) ==
    LET O == {j \in i..Len(s) : s[j] = "<"}
    IN  IF O = {} THEN SubSeq(s, i, Len(s))
        ELSE LET C == {j \in Min(O)..Len(s) : s[j] = ">"}
             IN  IF C = {} THEN SubSeq(s, i, Len(s))
                 ELSE SubSeq(s, i, Min(O) - 1) \o stripTags(s, Min(C) + 1)

\* element.textContent
textContent(el) == IF el.mode = "text" THEN el.s ELSE stripTags(el.s, 1)

Event(op, fetched, applied, notes) ==
    [op |-> op, fetched |-> fetched, applied |-> applied, notes |-> notes,
     missing |-> {}]

Display == [content |-> contentEl, summary |-> summaryEl]

\* applyHighlights: what it leaves in the two fields and the two elements
applyHighlights(kw, oc, os, cEl, sEl) ==
    IF kw = Null
    THEN [originalContent |-> oc, originalSummary |-> os,
          contentEl |-> cEl, summaryEl |-> sEl, applied |-> FALSE]
    ELSE LET oc2 == IF Falsy(oc) THEN cEl ELSE oc[1]
             os2 == IF Falsy(oc) THEN textContent(sEl) ELSE os[1]
         IN  [originalContent |-> Some(oc2), originalSummary |-> Some(os2),
              contentEl |-> highlightText(oc2, kw[1]),
              summaryEl |-> HtmlNode(highlightText(os2, kw[1])),
              applied |-> TRUE]

\* removeHighlights: what it leaves in the two elements
removeHighlights(oc, os, cEl, sEl) ==
    IF Falsy(oc)
    THEN [contentEl |-> cEl, summaryEl |-> sEl]
    ELSE [contentEl |-> oc[1], summaryEl |-> TextNode(os[1])]

\* the items of the sources list, in another order: the last source first
sourceItems_reversed(sources) ==
    [k \in 1..Len(sources) |->
        [href |-> sources[Len(sources) + 1 - k].url,
         number |-> k,
         title |-> sources[Len(sources) + 1 - k].title,
         domain |-> sources[Len(sources) + 1 - k].source]]

\* report.sources.map((source, index) => ...): one item per source, with its
\* link, its number index + 1, its title and its domain
sourceItems(sources) ==
    [k \in 1..Len(sources) |->
        [href |-> sources[k].url, number |-> k, title |-> sources[k].title,
         domain |-> sources[k].source]]

\* displayReport that keeps the report on display when there is one
displayReport_firstWins(r) ==
    /\ currentReport' = IF currentReport = NoReport THEN r ELSE currentReport
    /\ titleEl' = IF currentReport = NoReport THEN Some(Reports[r].title) ELSE titleEl
    /\ summaryEl' = IF currentReport = NoReport THEN TextNode(Reports[r].summary)
                    ELSE summaryEl
    /\ wordCountEl' = IF currentReport = NoReport THEN Some(Reports[r].word_count)
                      ELSE wordCountEl
    /\ sourceCountEl' = IF currentReport = NoReport
                        THEN Some(Len(Reports[r].sources)) ELSE sourceCountEl
    /\ contentEl' = IF currentReport = NoReport
                    THEN formatContent(Reports[r].content) ELSE contentEl
    /\ sourcesList' = IF currentReport = NoReport
                      THEN sourceItems(Reports[r].sources) ELSE sourcesList
    /\ reportShown' = TRUE
    /\ bookmarkActive' = IF currentReport = NoReport
                         THEN Reports[r].is_favorite # 0 ELSE bookmarkActive
    /\ UNCHANGED <<highlightsEnabled, keywords, originalContent,
                   originalSummary, btnText, pendingKeywords, kwFor, firstHL>>

\* displayReport(report), of the report stored at index r
displayReport(r) ==
    /\ currentReport' = r
    /\ titleEl' = Some(Reports[r].title)
    /\ summaryEl' = TextNode(Reports[r].summary)
    /\ wordCountEl' = Some(Reports[r].word_count)
    /\ sourceCountEl' = Some(Len(Reports[r].sources))
    /\ contentEl' = formatContent(Reports[r].content)
    /\ sourcesList' = sourceItems(Reports[r].sources)
    /\ reportShown' = TRUE
    /\ bookmarkActive' = (Reports[r].is_favorite # 0)
    /\ UNCHANGED <<highlightsEnabled, keywords, originalContent,
                   originalSummary, btnText, pendingKeywords, kwFor, firstHL>>

PendingCount == pendingKeywords[1] + pendingKeywords[2]

\* loadReport(reportId) up to its await (one request per report at a time)
loadReport(id) ==
    /\ id \notin pendingLoads
    /\ pendingLoads' = pendingLoads \cup {id}
    /\ ev' = Event("loadReport", FALSE, FALSE, 0)
    /\ UNCHANGED <<currentReport, highlightsEnabled, keywords, originalContent,
                   originalSummary, contentEl, summaryEl, btnText,
                   pendingKeywords, kwFor, snap, firstHL, reportEls>>

\* loadReport from its await on: the response is handled
loadReportResponse(id, outcome) ==
    /\ id \in pendingLoads
    /\ pendingLoads' = pendingLoads \ {id}
    /\ IF outcome = "ok"
       THEN /\ displayReport(CHOOSE r \in DOMAIN Reports : Reports[r].id = id)
            /\ snap' = Null
            /\ ev' = Event("displayReport", FALSE, FALSE, 0)
       ELSE /\ ev' = Event("loadReportFailed", FALSE, FALSE,
                           IF outcome = "error" THEN 1 ELSE 0)
            /\ UNCHANGED <<currentReport, highlightsEnabled, keywords,
                           originalContent, originalSummary, contentEl,
                           summaryEl, btnText, pendingKeywords, kwFor, snap,
                           firstHL, reportEls>>

\* The history of what the first enabling displayed for the current report,
\* once that report's keyword set has been fetched.
NoteFirst(applied, id, fetchedOk, content, summary) ==
    IF applied /\ fetchedOk /\ firstHL[id] = Null
    THEN [firstHL EXCEPT ![id] = Some([content |-> content, summary |-> summary])]
    ELSE firstHL

\* toggleHighlights up to its await, or to its end when it does not wait
toggleHighlights ==
    IF currentReport = NoReport
    THEN /\ ev' = Event("toggleHighlights", FALSE, FALSE, 1)
         /\ UNCHANGED <<currentReport, highlightsEnabled, keywords,
                        originalContent, originalSummary, contentEl, summaryEl,
                        btnText, pendingKeywords, pendingLoads, kwFor, snap,
                        firstHL, reportEls>>
    ELSE LET id == Reports[currentReport].id IN
         /\ highlightsEnabled' = ~highlightsEnabled
         /\ IF highlightsEnabled'
            THEN IF keywords = Null
                 THEN /\ PendingCount < MaxPending
                      /\ pendingKeywords' = [pendingKeywords EXCEPT ![id] = @ + 1]
                      /\ snap' = Some(Display)
                      /\ ev' = Event("toggleHighlights", TRUE, FALSE, 0)
                      /\ UNCHANGED <<originalContent, originalSummary,
                                     contentEl, summaryEl, btnText, firstHL>>
                 ELSE \E a \in {applyHighlights(keywords, originalContent,
                                                 originalSummary, contentEl,
                                                 summaryEl)} :
                          /\ originalContent' = a.originalContent
                          /\ originalSummary' = a.originalSummary
                          /\ contentEl' = a.contentEl
                          /\ summaryEl' = a.summaryEl
                          /\ btnText' = "Disable Highlights"
                          /\ snap' = Some(Display)
                          /\ firstHL' = NoteFirst(a.applied, id, kwFor = id,
                                                  a.contentEl, a.summaryEl)
                          /\ ev' = Event("toggleHighlights", FALSE, a.applied, 0)
                          /\ UNCHANGED pendingKeywords
            ELSE \E d \in {removeHighlights(originalContent, originalSummary,
                                             contentEl, summaryEl)} :
                     /\ contentEl' = d.contentEl
                     /\ summaryEl' = d.summaryEl
                     /\ btnText' = "Enable Highlights"
                     /\ ev' = Event("toggleHighlights", FALSE, FALSE, 0)
                     /\ UNCHANGED <<originalContent, originalSummary,
                                    pendingKeywords, snap, firstHL>>
         /\ UNCHANGED <<currentReport, keywords, pendingLoads, kwFor, reportEls>>

\* a response that lacks a field taken as a failed one: nothing is cached
keywordSet_strict(data) ==
    IF \E f \in KeywordFields : data[f] = Undefined
    THEN Null
    ELSE Some([keywords |-> data.keywords[1],
               entities |-> data.entities[1],
               technical |-> data.technical[1]])

\* this.keywords = { keywords: data.keywords || [], ... } of fetchKeywords
keywordSet(data) ==
    Some([keywords |-> orEmptyList(data.keywords),
          entities |-> orEmptyList(data.entities),
          technical |-> orEmptyList(data.technical)])

\* toggleHighlights from its await on: fetchKeywords(reportId) handles the
\* response, then the caller applies the highlights and sets the button text
keywordsResponse(id, outcome, missing) ==
    /\ pendingKeywords[id] > 0
    /\ pendingKeywords' = [pendingKeywords EXCEPT ![id] = @ - 1]
    /\ keywords' = IF outcome = "ok" /\ keywordSet(KeywordsData(id, missing)) # Null
                   THEN keywordSet(KeywordsData(id, missing))
                   ELSE keywords
    /\ kwFor' = IF outcome = "ok" THEN id ELSE kwFor
    /\ \E a \in {applyHighlights(keywords', originalContent, originalSummary,
                                  contentEl, summaryEl)},
          cur \in {Reports[currentReport].id} :
           /\ originalContent' = a.originalContent
           /\ originalSummary' = a.originalSummary
           /\ contentEl' = a.contentEl
           /\ summaryEl' = a.summaryEl
           /\ firstHL' = NoteFirst(a.applied, cur, kwFor' = cur,
                                   a.contentEl, a.summaryEl)
           /\ ev' = IF outcome = "ok"
                    THEN [Event("keywordsResponse", FALSE, a.applied, 0)
                             EXCEPT !.missing = missing]
                    ELSE Event("keywordsFailed", FALSE, a.applied, 1)
    /\ btnText' = "Disable Highlights"
    /\ UNCHANGED <<currentReport, highlightsEnabled, pendingLoads, snap, reportEls>>

-----------------------------------------------------------------------------
(* The sidebar: report list, filter and debounced search *)

\* the delay of the debounce timer, 300 ms; time is counted in units of 100 ms
Quiet == 3

Filters == {"all", "favorites"}

\* What GET /api/reports and GET /api/reports/favorites hold: report ids.
ServerList(filter) == IF filter = "favorites" THEN <<2>> ELSE <<1, 2>>

Query_ab == <<"a", "b">>
Query_abc == <<"a", "b", "c">>

\* What GET /api/search?q= finds: report ids.
ServerSearch(q) == IF q = Query_ab THEN <<1, 2>> ELSE <<>>

\* A response to a list or search request: the fetch is rejected, or it
\* gives JSON data with or without success and with or without reports.
Response(rejected, success, rs) ==
    [rejected |-> rejected, success |-> success, reports |-> rs]

Responses(list) ==
    { Response(TRUE, FALSE, Undefined),
      Response(FALSE, TRUE, Some(list)),
      Response(FALSE, TRUE, Undefined),
      Response(FALSE, FALSE, Undefined),
      Response(FALSE, FALSE, Some(list)) }

\* values of the search box
SearchValues == { <<"a">>, <<" ", "a", "b", " ">>, Query_abc }

WhiteSpace == {" ", NL, "\t"}

\* the string as it is
trim_none(s) == s

\* String.prototype.trim
RECURSIVE trim(_)
trim(s) ==
    IF s = <<>> THEN s
    ELSE IF Head(s) \in WhiteSpace THEN trim(Tail(s))
    ELSE IF s[Len(s)] \in WhiteSpace THEN trim(SubSeq(s, 1, Len(s) - 1))
    ELSE s

\* the queries performSearch can send
SearchQueries == {q \in {trim(v) : v \in SearchValues} : Len(q) >= 2}

ListView(kind, items, filter, query) ==
    [kind |-> kind, items |-> items, filter |-> filter, query |-> query]

\* renderReportsList: the empty state names the filter, the list has one
\* item per report
renderReportsList(rs, filter) ==
    IF Len(rs) = 0 THEN ListView("empty", <<>>, filter, <<>>)
    ELSE ListView("reports", rs, "", <<>>)

\* renderSearchResults: the empty state and the titles show the query
renderSearchResults(rs, q) ==
    IF Len(rs) = 0 THEN ListView("noresults", <<>>, "", q)
    ELSE ListView("results", rs, "", q)

RECURSIVE Sum(_, _)
Sum(f, S) ==
    IF S = {} THEN 0
    ELSE LET x == CHOOSE y \in S : TRUE IN f[x] + Sum(f, S \ {x})

\* list and search requests in flight
InFlight == Sum(pendingLists, Filters) + Sum(pendingSearches, SearchQueries)

\* loadReports() up to its await: the request for the current filter is sent
loadReports(pending, filter) == [pending EXCEPT ![filter] = @ + 1]

\* A timer that is due runs before the next input event is handled and
\* before time goes on.
NoTimerDue == \A t \in timeouts : t.left > 0

\* clearTimeout left out
clearTimeout_noop(timers, id) == timers

\* clearTimeout(this.searchTimeout)
clearTimeout(timers, id) ==
    IF id = Null THEN timers ELSE {t \in timers : t.id # id[1]}

\* the id setTimeout returns: one that no timer that is set has
NewTimerId(timers) ==
    Min({i \in 1..(Cardinality(timers) + 1) : \A t \in timers : t.id # i})

\* handleSearch(e.target.value), on an input event of the search box
handleSearch(value) ==
    /\ NoTimerDue
    /\ \E q \in {trim(value)}, kept \in {clearTimeout(timeouts, searchTimeout)} :
         /\ Cardinality(kept) < MaxTimers
         /\ searchQuery' = q
         /\ searchInput' = value
         /\ clearShown' = (q # <<>>)
         /\ \E id \in {NewTimerId(kept)} :
              /\ timeouts' = kept \cup {[id |-> id, left |-> Quiet]}
              /\ searchTimeout' = Some(id)
    /\ LET newBurst == sh.calls = 0 \/ idle >= Quiet
       IN  sh' = [sh EXCEPT !.op = "handleSearch", !.value = value,
                            !.calls = IF newBurst THEN 1
                                      ELSE IF @ < 3 THEN @ + 1 ELSE @,
                            !.owed = IF newBurst THEN @ + 1 ELSE @]
    /\ idle' = 0
    /\ UNCHANGED <<reports, currentFilter, searchActive, listEl,
                   pendingLists, pendingSearches>>

\* the debounce timer of the given id fires: performSearch up to its await
performSearch(id) ==
    /\ \E t \in timeouts : t.id = id /\ t.left = 0
    /\ InFlight < MaxPending
    /\ timeouts' = {t \in timeouts : t.id # id}
    /\ IF Len(searchQuery) < 2
       THEN /\ pendingLists' = loadReports(pendingLists, currentFilter)
            /\ searchActive' = FALSE
            /\ sh' = [sh EXCEPT !.op = "performSearch", !.owed = @ - 1,
                                !.ranAfter = idle, !.query = Null]
            /\ UNCHANGED pendingSearches
       ELSE /\ pendingSearches' = [pendingSearches EXCEPT ![searchQuery] = @ + 1]
            /\ sh' = [sh EXCEPT !.op = "performSearch", !.owed = @ - 1,
                                !.ranAfter = idle, !.query = Some(searchQuery)]
            /\ UNCHANGED <<pendingLists, searchActive>>
    /\ UNCHANGED <<reports, currentFilter, searchQuery, searchTimeout, idle,
                   searchInput, clearShown, listEl>>

\* performSearch from its await on: the response to the query q is handled
searchResponse(q, data) ==
    /\ pendingSearches[q] > 0
    /\ pendingSearches' = [pendingSearches EXCEPT ![q] = @ - 1]
    /\ IF ~data.rejected /\ data.success
       THEN /\ reports' = data.reports
            /\ IF data.reports = Undefined
               THEN UNCHANGED <<listEl, searchActive>>
               ELSE /\ listEl' = renderSearchResults(data.reports[1], searchQuery)
                    /\ searchActive' = TRUE
       ELSE UNCHANGED <<reports, listEl, searchActive>>
    /\ UNCHANGED sh
    /\ UNCHANGED <<currentFilter, searchQuery, searchTimeout, timeouts, idle,
                   searchInput, clearShown, pendingLists>>

\* loadReports from its await on: the response of the request sent for the
\* given filter is handled
loadReportsResponse(filter, data) ==
    /\ pendingLists[filter] > 0
    /\ pendingLists' = [pendingLists EXCEPT ![filter] = @ - 1]
    /\ IF ~data.rejected /\ (data.success \/ data.reports # Undefined)
       THEN /\ reports' = Some(orEmptyList(data.reports))
            /\ listEl' = renderReportsList(orEmptyList(data.reports), currentFilter)
       ELSE UNCHANGED <<reports, listEl>>
    /\ UNCHANGED sh
    /\ UNCHANGED <<currentFilter, searchQuery, searchTimeout, timeouts, idle,
                   searchInput, clearShown, searchActive, pendingSearches>>

\* clearSearch(), on a click of #search-clear
clearSearch ==
    /\ NoTimerDue
    /\ InFlight < MaxPending
    /\ searchQuery' = <<>>
    /\ searchInput' = <<>>
    /\ clearShown' = FALSE
    /\ searchActive' = FALSE
    /\ pendingLists' = loadReports(pendingLists, currentFilter)
    /\ UNCHANGED sh
    /\ UNCHANGED <<reports, currentFilter, searchTimeout, timeouts, idle, listEl,
                   pendingSearches>>

\* filterReports(filter), on a click of a filter button
filterReports(filter) ==
    /\ NoTimerDue
    /\ InFlight < MaxPending
    /\ currentFilter' = filter
    /\ pendingLists' = loadReports(pendingLists, filter)
    /\ UNCHANGED sh
    /\ UNCHANGED <<reports, searchQuery, searchTimeout, timeouts, idle,
                   searchInput, clearShown, searchActive, listEl, pendingSearches>>

\* 100 ms pass
tick ==
    /\ NoTimerDue
    /\ timeouts' = {[t EXCEPT !.left = @ - 1] : t \in timeouts}
    /\ idle' = IF idle < Quiet THEN idle + 1 ELSE idle
    /\ UNCHANGED <<reports, currentFilter, searchQuery, searchTimeout,
                   searchInput, clearShown, searchActive, listEl, pendingLists,
                   pendingSearches, sh>>

-----------------------------------------------------------------------------
(* Research: the form, the progress indicator and the request *)

\* const steps = ['search', 'extract', 'analyze', 'write']
steps == <<"search", "extract", "analyze", "write">>

\* the submit button as the finally block leaves it, and while researching
SubmitReady == [disabled |-> FALSE, label |-> "Start Research"]
SubmitBusy == [disabled |-> TRUE, label |-> "Researching..."]

\* values of the topic box
TopicValues == { <<>>, <<" ">>, <<"q">>, <<" ", "q", " ">> }

\* How a research request can end: the fetch is rejected, the status is not
\* ok, the data has no success, or it has success with a report, which may
\* lack its sources.
ResearchOutcomes == {"ok", "badReport", "rejected", "httpError", "nosuccess"}

\* History of the report responses: the report of the successful response
\* handled last, whether its request was in flight when the successful
\* response before it was handled, and the requests in flight since then.
NoWrite ==
    [report |-> NoReport, raced |-> FALSE, loads |-> {}, research |-> FALSE]

\* the history after the response to loadReport(id) is handled
lwAfterLoad(id, outcome) ==
    IF outcome = "ok"
    THEN [report |-> CHOOSE r \in DOMAIN Reports : Reports[r].id = id,
          raced |-> id \in lw.loads,
          loads |-> pendingLoads \ {id},
          research |-> pendingResearch # Null]
    ELSE [lw EXCEPT !.loads = @ \ {id}]

\* the history after the response to the research request is handled
lwAfterResearch(outcome, r) ==
    IF outcome = "ok"
    THEN [report |-> r, raced |-> lw.research, loads |-> pendingLoads,
          research |-> FALSE]
    ELSE [lw EXCEPT !.research = FALSE]

NoAttempt ==
    [outcome |-> "none", report |-> NoReport, before |-> NoReport,
     activated |-> 0, sent |-> 0, successes |-> 0]

displayVars == <<currentReport, contentEl, summaryEl, reportEls>>

highlightVars == <<highlightsEnabled, keywords, originalContent,
                   originalSummary, btnText, pendingKeywords, kwFor, firstHL>>

searchVarsButLists == <<reports, currentFilter, searchQuery, searchTimeout,
                        timeouts, idle, searchInput, clearShown, searchActive,
                        listEl, pendingSearches, sh>>

\* the timer callback that starts over after the last step
intervalTick_wrap(currentStep, classes) ==
    LET c == IF currentStep < Len(steps) THEN currentStep ELSE 0
    IN  [classes |-> [n \in DOMAIN classes |->
                        IF n = steps[c + 1] THEN classes[n] \cup {"active"}
                        ELSE IF c > 0 /\ n = steps[c]
                             THEN (classes[n] \ {"active"}) \cup {"completed"}
                             ELSE classes[n]],
         currentStep |-> c + 1, set |-> TRUE, activated |-> 1]

\* the timer callback that leaves the previous step active
intervalTick_keepActive(currentStep, classes) ==
    IF currentStep < Len(steps)
    THEN [classes |-> [n \in DOMAIN classes |->
                         IF n = steps[currentStep + 1]
                         THEN classes[n] \cup {"active"}
                         ELSE IF currentStep > 0 /\ n = steps[currentStep]
                              THEN classes[n] \cup {"completed"}
                              ELSE classes[n]],
          currentStep |-> currentStep + 1, set |-> TRUE, activated |-> 1]
    ELSE [classes |-> classes, currentStep |-> currentStep, set |-> FALSE,
          activated |-> 0]

\* One run of the setInterval callback of showProgress, whose closure holds
\* currentStep (counted from 0): the step classes it leaves, its currentStep,
\* whether the timer is still set, and how many steps it activated.
intervalTick(currentStep, classes) ==
    IF currentStep < Len(steps)
    THEN [classes |-> [n \in DOMAIN classes |->
                         IF n = steps[currentStep + 1]
                         THEN classes[n] \cup {"active"}
                         ELSE IF currentStep > 0 /\ n = steps[currentStep]
                              THEN (classes[n] \ {"active"}) \cup {"completed"}
                              ELSE classes[n]],
          currentStep |-> currentStep + 1, set |-> TRUE, activated |-> 1]
    ELSE [classes |-> classes, currentStep |-> currentStep, set |-> FALSE,
          activated |-> 0]

\* clearInterval left out
clearInterval_noop(timers, id) == timers

\* clearInterval(this.progressInterval), when the field is set
clearInterval(timers, id) ==
    IF id = Undefined THEN timers ELSE {t \in timers : t.id # id[1]}

\* hideProgress that leaves the step classes as they are
hideProgress_keepSteps ==
    /\ intervals' = clearInterval(intervals, progressInterval)
    /\ progressActive' = FALSE
    /\ stepClasses' = stepClasses

\* hideProgress
hideProgress ==
    /\ intervals' = clearInterval(intervals, progressInterval)
    /\ progressActive' = FALSE
    /\ stepClasses' = [n \in DOMAIN stepClasses |-> {}]

\* the button re-enabled at the end of the try block only
submitAfter_successOnly(outcome) ==
    IF outcome = "ok" THEN SubmitReady ELSE SubmitBusy

\* the finally block of startResearch
submitAfter(outcome) == SubmitReady

\* the user edits the topic box
typeTopic(value) ==
    /\ topicInput' = value
    /\ ev' = Event("typeTopic", FALSE, FALSE, 0)
    /\ UNCHANGED <<submitBtn, progressActive, stepClasses, progressInterval,
                   intervals, pendingResearch, rh>>
    /\ UNCHANGED <<displayVars, highlightVars, pendingLoads, snap>>

\* startResearch up to its await, or to its return when the topic is empty.
\* The form is not submitted while its submit button is disabled.
startResearch ==
    /\ ~submitBtn.disabled
    /\ \E topic \in {trim(topicInput)} :
         IF topic = <<>>
         THEN /\ ev' = Event("startResearch", FALSE, FALSE, 1)
              /\ UNCHANGED <<submitBtn, progressActive, progressInterval,
                             intervals, pendingResearch, rh>>
         ELSE /\ submitBtn' = SubmitBusy
              /\ progressActive' = TRUE
              /\ \E id \in {NewTimerId(intervals)} :
                   /\ intervals' = intervals \cup {[id |-> id, currentStep |-> 0]}
                   /\ progressInterval' = Some(id)
              /\ pendingResearch' = Some(topic)
              /\ ev' = Event("startResearch", FALSE, FALSE, 0)
              /\ rh' = [NoAttempt EXCEPT !.outcome = "pending",
                                         !.before = currentReport, !.sent = 1]
    /\ UNCHANGED <<topicInput, stepClasses>>
    /\ UNCHANGED <<displayVars, highlightVars, pendingLoads, snap>>

\* the interval timer of the given id fires
progressTick(id) ==
    /\ \E t \in intervals :
         /\ t.id = id
         /\ \E a \in {intervalTick(t.currentStep, stepClasses)} :
              /\ stepClasses' = a.classes
              /\ intervals' =
                    IF a.set
                    THEN (intervals \ {t})
                            \cup {[id |-> id, currentStep |-> a.currentStep]}
                    ELSE intervals \ {t}
              /\ rh' = [rh EXCEPT !.activated = @ + a.activated]
    /\ ev' = Event("progressTick", FALSE, FALSE, 0)
    /\ UNCHANGED <<topicInput, submitBtn, progressActive, progressInterval,
                   pendingResearch>>
    /\ UNCHANGED <<displayVars, highlightVars, pendingLoads, snap>>

\* startResearch from its await on: the try block with the response, the
\* catch block, the finally block. r is the report a success response holds.
researchResponse(outcome, r) ==
    /\ pendingResearch # Null
    /\ pendingResearch' = Null
    /\ hideProgress
    /\ submitBtn' = submitAfter(outcome)
    /\ IF outcome = "ok"
       THEN /\ InFlight < MaxPending
            /\ displayReport(r)
            /\ snap' = Null
            /\ topicInput' = <<>>
            /\ pendingLists' = loadReports(pendingLists, currentFilter)
            /\ ev' = Event("researchResponse", FALSE, FALSE, 0)
            /\ rh' = [rh EXCEPT !.outcome = outcome, !.report = r,
                                !.before = currentReport, !.successes = 1]
       ELSE IF outcome = "badReport"
       THEN /\ currentReport' = r
            /\ titleEl' = Some(Reports[r].title)
            /\ summaryEl' = TextNode(Reports[r].summary)
            /\ wordCountEl' = Some(Reports[r].word_count)
            /\ snap' = Null
            /\ ev' = Event("researchResponse", FALSE, FALSE, 1)
            /\ rh' = [rh EXCEPT !.outcome = outcome, !.report = r,
                                !.before = currentReport]
            /\ UNCHANGED <<contentEl, sourceCountEl, sourcesList, reportShown,
                           bookmarkActive, highlightVars, topicInput,
                           pendingLists>>
       ELSE /\ ev' = Event("researchResponse", FALSE, FALSE, 1)
            /\ rh' = [rh EXCEPT !.outcome = outcome, !.before = currentReport]
            /\ UNCHANGED <<displayVars, highlightVars, snap, topicInput,
                           pendingLists>>
    /\ UNCHANGED <<progressInterval, pendingLoads>>

-----------------------------------------------------------------------------
(* Export, bookmark and version history of the current report *)

\* the formats of the three export buttons
Formats == {"html", "markdown", "pdf"}

\* How an export request can end: a response that is ok, one that is not,
\* or a rejected fetch.
ExportOutcomes == {"ok", "httpError", "rejected"}

\* What GET /api/reports/:id/versions holds: version ids, the newest first.
ServerVersions(id) == IF id = 1 THEN <<12, 11>> ELSE <<>>

\* requests of the three handlers in flight
ToolsInFlight ==
    Cardinality(pendingExports) + Cardinality(pendingBookmarks)
        + Cardinality(pendingHistory)

\* what no handler of this section writes of the report and its highlights
reportVarsButBookmark ==
    <<currentReport, contentEl, summaryEl, titleEl, wordCountEl, sourceCountEl,
      sourcesList, reportShown, highlightVars, pendingLoads, snap>>

\* exportReport(format) up to its await, or to its return without a report
\* (one request per report and format at a time)
exportReport(format) ==
    /\ IF currentReport = NoReport
       THEN /\ ev' = Event("exportReport", FALSE, FALSE, 1)
            /\ UNCHANGED pendingExports
       ELSE /\ <<Reports[currentReport].id, format>> \notin pendingExports
            /\ ToolsInFlight < MaxPending
            /\ pendingExports' =
                  pendingExports \cup {<<Reports[currentReport].id, format>>}
            /\ ev' = Event("exportReport", FALSE, FALSE, 0)
    /\ UNCHANGED <<pendingBookmarks, pendingHistory, historyActive,
                   historyTimeline>>
    /\ UNCHANGED <<reportVarsButBookmark, bookmarkActive>>

\* exportReport from its await on: the file of an ok response is saved and a
\* success notification shown, any other outcome gives an error notification
exportResponse(id, format, outcome) ==
    /\ <<id, format>> \in pendingExports
    /\ pendingExports' = pendingExports \ {<<id, format>>}
    /\ ev' = IF outcome = "ok"
             THEN Event("exportResponse", FALSE, FALSE, 0)
             ELSE Event("exportFailed", FALSE, FALSE, 1)
    /\ UNCHANGED <<pendingBookmarks, pendingHistory, historyActive,
                   historyTimeline>>
    /\ UNCHANGED <<reportVarsButBookmark, bookmarkActive>>

\* toggleBookmark up to its await, or to its return without a report
\* (one request per report at a time)
toggleBookmark ==
    /\ IF currentReport = NoReport
       THEN /\ ev' = Event("toggleBookmark", FALSE, FALSE, 1)
            /\ UNCHANGED pendingBookmarks
       ELSE /\ Reports[currentReport].id \notin pendingBookmarks
            /\ ToolsInFlight < MaxPending
            /\ pendingBookmarks' =
                  pendingBookmarks \cup {Reports[currentReport].id}
            /\ ev' = Event("toggleBookmark", FALSE, FALSE, 0)
    /\ UNCHANGED <<pendingExports, pendingHistory, historyActive,
                   historyTimeline>>
    /\ UNCHANGED <<reportVarsButBookmark, bookmarkActive>>

\* toggleBookmark from its await on: with success the report that is current
\* now gets the is_favorite of the response, which updateBookmarkUI shows on
\* the button, and the list is fetched again
bookmarkResponse(id, outcome, is_favorite) ==
    /\ id \in pendingBookmarks
    /\ pendingBookmarks' = pendingBookmarks \ {id}
    /\ IF outcome = "ok"
       THEN /\ InFlight < MaxPending
            /\ bookmarkActive' = is_favorite
            /\ pendingLists' = loadReports(pendingLists, currentFilter)
            /\ ev' = Event("bookmarkResponse", FALSE, FALSE, 0)
       ELSE /\ ev' = Event("bookmarkFailed", FALSE, FALSE,
                           IF outcome = "error" THEN 1 ELSE 0)
            /\ UNCHANGED <<bookmarkActive, pendingLists>>
    /\ UNCHANGED <<pendingExports, pendingHistory, historyActive,
                   historyTimeline>>
    /\ UNCHANGED reportVarsButBookmark

\* openHistory up to its await, or to its return without a report
\* (one request per report at a time)
openHistory ==
    /\ IF currentReport = NoReport
       THEN /\ ev' = Event("openHistory", FALSE, FALSE, 1)
            /\ UNCHANGED pendingHistory
       ELSE /\ Reports[currentReport].id \notin pendingHistory
            /\ ToolsInFlight < MaxPending
            /\ pendingHistory' = pendingHistory \cup {Reports[currentReport].id}
            /\ ev' = Event("openHistory", FALSE, FALSE, 0)
    /\ UNCHANGED <<pendingExports, pendingBookmarks, historyActive,
                   historyTimeline>>
    /\ UNCHANGED <<reportVarsButBookmark, bookmarkActive>>

\* openHistory from its await on: with success renderHistoryTimeline shows
\* the versions and the modal opens
historyResponse(id, outcome) ==
    /\ id \in pendingHistory
    /\ pendingHistory' = pendingHistory \ {id}
    /\ IF outcome = "ok"
       THEN /\ historyTimeline' = Some(ServerVersions(id))
            /\ historyActive' = TRUE
            /\ ev' = Event("historyResponse", FALSE, FALSE, 0)
       ELSE /\ ev' = Event("historyFailed", FALSE, FALSE,
                           IF outcome = "error" THEN 1 ELSE 0)
            /\ UNCHANGED <<historyActive, historyTimeline>>
    /\ UNCHANGED <<pendingExports, pendingBookmarks>>
    /\ UNCHANGED <<reportVarsButBookmark, bookmarkActive>>

-----------------------------------------------------------------------------
(* The analytics dashboard *)

\* What GET /api/analytics holds as top_sources: with citations, or none.
TopSources == { << [source |-> "a.org", count |-> 1],
                   [source |-> "b.org", count |-> 2] >>,
                << >> }

\* How an analytics request can end: a rejected fetch, {success: false}, or
\* the analytics with their top sources.
AnalyticsResponses ==
    { [rejected |-> TRUE, success |-> FALSE, top_sources |-> <<>>],
      [rejected |-> FALSE, success |-> FALSE, top_sources |-> <<>>] }
    \cup {[rejected |-> FALSE, success |-> TRUE, top_sources |-> t] :
                t \in TopSources}

\* renderTopSources(sources): the placeholder, or one item per source with
\* its name and its citations
renderTopSources(sources) ==
    IF Len(sources) = 0
    THEN << [placeholder |-> "No sources available"] >>
    ELSE [k \in 1..Len(sources) |->
            [name |-> sources[k].source, citations |-> sources[k].count]]

\* openDashboard up to its await: the modal opens and the request is sent
openDashboard ==
    /\ pendingAnalytics < MaxPending
    /\ dashboardActive' = TRUE
    /\ pendingAnalytics' = pendingAnalytics + 1
    /\ ev' = Event("openDashboard", FALSE, FALSE, 0)
    /\ UNCHANGED <<dashboardEl, reportVarsButBookmark, bookmarkActive>>

\* openDashboard from its await on: renderDashboard fills the statistics,
\* the word cloud, the topics and the trends, and renderTopSources fills the
\* element it finds under the id sources-list, which is the id under which
\* displayReport finds the sources list of the report
analyticsResponse(data) ==
    /\ pendingAnalytics > 0
    /\ pendingAnalytics' = pendingAnalytics - 1
    /\ IF ~data.rejected /\ data.success
       THEN /\ dashboardEl' = Some(data.top_sources)
            /\ sourcesList' = renderTopSources(data.top_sources)
            /\ ev' = Event("analyticsResponse", FALSE, FALSE, 0)
       ELSE /\ ev' = Event("analyticsFailed", FALSE, FALSE, 1)
            /\ UNCHANGED <<dashboardEl, sourcesList>>
    /\ UNCHANGED <<dashboardActive, currentReport, contentEl, summaryEl,
                   titleEl, wordCountEl, sourceCountEl, reportShown,
                   bookmarkActive, highlightVars, pendingLoads, snap>>

\* closeDashboard(), on a click of #dashboard-close or of the overlay
closeDashboard ==
    /\ dashboardActive' = FALSE
    /\ ev' = Event("closeDashboard", FALSE, FALSE, 0)
    /\ UNCHANGED <<pendingAnalytics, dashboardEl, reportVarsButBookmark,
                   bookmarkActive>>

-----------------------------------------------------------------------------
(* The theme *)

\* the value stored for the other theme
storedTheme_swapped(isDark) == IF isDark THEN "light" ELSE "dark"

\* isDark ? 'dark' : 'light'
storedTheme(isDark) == IF isDark THEN "dark" ELSE "light"

\* toggleTheme(), on a click of #theme-toggle
toggleTheme ==
    /\ darkMode' = ~darkMode
    /\ theme' = Some(storedTheme(darkMode'))
    /\ th' = [op |-> "toggleTheme",
              toggles |-> IF th.toggles < 2 THEN th.toggles + 1 ELSE th.toggles]

\* the DOMContentLoaded handler's use of the saved theme: whether the class
\* dark-mode is added to the body, which the template gives without it
savedThemeIsDark(savedTheme) == savedTheme = Some("dark")

-----------------------------------------------------------------------------
(* Runs of the two text transforms on their own *)

FormatTokens ==
    { <<"#", "#", " ">>, <<"#", "#", "#", " ">>, <<"*", "*">>, <<"a">>,
      <<" ">>, <<NL>>, <<NL, NL>>, <<"<", "h", "2", ">">>,
      <<"<", "h", "r", ">">> }

FormatExamples ==
    { <<"*", "*", "b", "o", "l", "d", "*", "*", " ", "t", "e", "x", "t">>,
      <<"#", "#", " ", "A", "\n", "\n", "p", "l", "a", "i", "n">>,
      <<"<", "h", "2", ">", "A", "<", "/", "h", "2", ">">> }

FormatInputs ==
    FormatExamples \cup
    {Flatten(ts) : ts \in UNION {[1..n -> FormatTokens] : n \in 0..MaxTokens}}

HighlightTokens ==
    { <<"A", "I">>, <<"a", "i">>, <<"f", "A", "I", "l", "e", "d">>, <<" ">>,
      <<"C", "+", "+">>, <<"x">>, <<"m", "l">> }

HighlightExamples ==
    { <<"A", "I", " ", "a", "i", " ", "f", "A", "I", "l", "e", "d">>,
      <<"C", "+", "+", " ", "x">> }

HighlightTexts ==
    HighlightExamples \cup
    {Flatten(ts) : ts \in UNION {[1..n -> HighlightTokens] : n \in 0..MaxWords}}

Terms == { <<"A", "I">>, <<"m", "l">>, <<"C", "+", "+">> }

TermLists == UNION {[1..n -> Terms] : n \in 0..MaxTerms}

KeywordSets ==
    {kw \in [entities : TermLists, technical : TermLists, keywords : TermLists] :
        Len(kw.entities) + Len(kw.technical) + Len(kw.keywords) <= MaxTerms}

\* Report contents whose formatted markup and marked text hold words that
\* are also names of the markup: a bold word, a header, plain paragraphs.
MarkupContents ==
    { <<"*", "*", "A", "I", "*", "*", " ", "i", "s", " ", "s", "t", "r", "o", "n", "g">>,
      <<"#", "#", " ", "A", "I">>,
      <<"a", " ", "k", "e", "y", "w", "o", "r", "d", " ", "o", "f", " ", "A", "I">>,
      <<"t", "h", "e", " ", "s", "p", "a", "n", " ", "o", "f", " ", "A", "I">> }

\* contentEl.innerHTML as displayReport leaves it for these contents
MarkupTexts == {formatContent(c) : c \in MarkupContents}

\* Terms of a keyword set for these contents: words of the reports
MarkupTerms == { <<"A", "I">>, <<"s", "t", "r", "o", "n", "g">>, <<"k", "e", "y", "w", "o", "r", "d">>, <<"s", "p", "a", "n">> }

MarkupTermLists == UNION {[1..n -> MarkupTerms] : n \in 0..MaxTerms}

MarkupKeywordSets ==
    {kw \in [entities : MarkupTermLists, technical : MarkupTermLists,
             keywords : MarkupTermLists] :
        Len(kw.entities) + Len(kw.technical) + Len(kw.keywords) <= MaxTerms}

\* formatContent(content) is called
formatContentCall ==
    /\ fmtOut = Pending
    /\ fmtOut' = Some(formatContent(fmtIn))
    /\ UNCHANGED <<uiVars, fmtIn, hlIn, hlOut, searchVars, researchVars,
                   extraVars>>

\* the three loops of applyHighlights run over a text
highlightCall ==
    /\ hlOut = Pending
    /\ hlOut' = Some(highlightText(hlIn.text, hlIn.kw))
    /\ UNCHANGED <<uiVars, fmtIn, fmtOut, hlIn, searchVars, researchVars,
                   extraVars>>

-----------------------------------------------------------------------------
(* Specifications *)

\* The state the constructor leaves, with the page as the template gives it:
\* no report shown, the highlight button offering to enable.
InitPage ==
    /\ currentReport = NoReport
    /\ highlightsEnabled = FALSE
    /\ keywords = Null
    /\ originalContent = Undefined
    /\ originalSummary = Undefined
    /\ contentEl = <<>>
    /\ summaryEl = TextNode(<<>>)
    /\ btnText = "Enable Highlights"
    /\ pendingKeywords = [id \in ReportIds |-> 0]
    /\ pendingLoads = {}
    /\ ev = Event("init", FALSE, FALSE, 0)
    /\ kwFor = NoReport
    /\ snap = Null
    /\ firstHL = [id \in ReportIds |-> Null]
    /\ reports = Some(<<>>)
    /\ currentFilter = "all"
    /\ searchQuery = <<>>
    /\ searchTimeout = Null
    /\ timeouts = {}
    /\ idle = 0
    /\ searchInput = <<>>
    /\ clearShown = FALSE
    /\ searchActive = FALSE
    /\ listEl = ListView("template", <<>>, "", <<>>)
    /\ pendingLists = [f \in Filters |-> IF f = "all" THEN 1 ELSE 0]
    /\ pendingSearches = [q \in SearchQueries |-> 0]
    /\ sh = [op |-> "init", value |-> <<>>, calls |-> 0, owed |-> 0,
             ranAfter |-> 0, query |-> Null]
    /\ titleEl = Null
    /\ wordCountEl = Null
    /\ sourceCountEl = Null
    /\ sourcesList = <<>>
    /\ reportShown = FALSE
    /\ bookmarkActive = FALSE
    /\ topicInput = <<>>
    /\ submitBtn = SubmitReady
    /\ progressActive = FALSE
    /\ stepClasses = [n \in Range(steps) |-> {}]
    /\ progressInterval = Undefined
    /\ intervals = {}
    /\ pendingResearch = Null
    /\ rh = NoAttempt
    /\ lw = NoWrite
    /\ darkMode = FALSE
    /\ theme = Null
    /\ th = [op |-> "init", toggles |-> 0]
    /\ pendingExports = {}
    /\ pendingBookmarks = {}
    /\ pendingHistory = {}
    /\ historyActive = FALSE
    /\ historyTimeline = Null
    /\ dashboardActive = FALSE
    /\ pendingAnalytics = 0
    /\ dashboardEl = Null

\* The page is loaded again: the document and the ResearchAgent are new, the
\* requests of the old page are gone, the local storage is kept, and the
\* DOMContentLoaded handler applies the saved theme.
pageLoad ==
    /\ currentReport' = NoReport
    /\ highlightsEnabled' = FALSE
    /\ keywords' = Null
    /\ originalContent' = Undefined
    /\ originalSummary' = Undefined
    /\ contentEl' = <<>>
    /\ summaryEl' = TextNode(<<>>)
    /\ btnText' = "Enable Highlights"
    /\ pendingKeywords' = [id \in ReportIds |-> 0]
    /\ pendingLoads' = {}
    /\ ev' = Event("init", FALSE, FALSE, 0)
    /\ kwFor' = NoReport
    /\ snap' = Null
    /\ firstHL' = [id \in ReportIds |-> Null]
    /\ reports' = Some(<<>>)
    /\ currentFilter' = "all"
    /\ searchQuery' = <<>>
    /\ searchTimeout' = Null
    /\ timeouts' = {}
    /\ idle' = 0
    /\ searchInput' = <<>>
    /\ clearShown' = FALSE
    /\ searchActive' = FALSE
    /\ listEl' = ListView("template", <<>>, "", <<>>)
    /\ pendingLists' = [f \in Filters |-> IF f = "all" THEN 1 ELSE 0]
    /\ pendingSearches' = [q \in SearchQueries |-> 0]
    /\ sh' = [op |-> "init", value |-> <<>>, calls |-> 0, owed |-> 0,
             ranAfter |-> 0, query |-> Null]
    /\ titleEl' = Null
    /\ wordCountEl' = Null
    /\ sourceCountEl' = Null
    /\ sourcesList' = <<>>
    /\ reportShown' = FALSE
    /\ bookmarkActive' = FALSE
    /\ topicInput' = <<>>
    /\ submitBtn' = SubmitReady
    /\ progressActive' = FALSE
    /\ stepClasses' = [n \in Range(steps) |-> {}]
    /\ progressInterval' = Undefined
    /\ intervals' = {}
    /\ pendingResearch' = Null
    /\ rh' = NoAttempt
    /\ lw' = NoWrite
    /\ pendingExports' = {}
    /\ pendingBookmarks' = {}
    /\ pendingHistory' = {}
    /\ historyActive' = FALSE
    /\ historyTimeline' = Null
    /\ dashboardActive' = FALSE
    /\ pendingAnalytics' = 0
    /\ dashboardEl' = Null
    /\ darkMode' = savedThemeIsDark(theme)
    /\ th' = [th EXCEPT !.op = "pageLoad"]
    /\ UNCHANGED theme

NoFormatRun == fmtIn = <<>> /\ fmtOut = Pending

NoHighlightRun ==
    /\ hlIn = [text |-> <<>>,
               kw |-> [entities |-> <<>>, technical |-> <<>>, keywords |-> <<>>]]
    /\ hlOut = Pending

Init == InitPage /\ NoFormatRun /\ NoHighlightRun

Next ==
    \/ \E id \in ReportIds : loadReport(id) /\ UNCHANGED <<fmtIn, fmtOut, hlIn, hlOut, searchVars, researchVars,
                       extraVars>>
    \/ \E id \in ReportIds, o \in Outcomes :
          loadReportResponse(id, o) /\ UNCHANGED <<fmtIn, fmtOut, hlIn, hlOut, searchVars, researchVars,
                       extraVars>>
    \/ toggleHighlights /\ UNCHANGED <<fmtIn, fmtOut, hlIn, hlOut, searchVars, researchVars,
                       extraVars>>
    \/ \E id \in ReportIds, o \in Outcomes :
          keywordsResponse(id, o, {}) /\ UNCHANGED <<fmtIn, fmtOut, hlIn, hlOut, searchVars, researchVars,
                       extraVars>>

Spec == Init /\ [][Next]_vars

InitFormat == InitPage /\ NoHighlightRun /\ fmtIn \in FormatInputs /\ fmtOut = Pending

NextFormat == formatContentCall

SpecFormat == InitFormat /\ [][NextFormat]_vars

InitHighlight ==
    /\ InitPage
    /\ NoFormatRun
    /\ hlIn \in [text : HighlightTexts, kw : KeywordSets]
    /\ hlOut = Pending

NextHighlight == highlightCall

SpecHighlight == InitHighlight /\ [][NextHighlight]_vars

\* The highlight loops over the formatted content of a report.
InitMarkup ==
    /\ InitPage
    /\ NoFormatRun
    /\ hlIn \in [text : MarkupTexts, kw : MarkupKeywordSets]
    /\ hlOut = Pending

SpecMarkup == InitMarkup /\ [][NextHighlight]_vars

pageVars == <<uiVars, fmtIn, fmtOut, hlIn, hlOut, researchVars, extraVars>>

NextSearch ==
    \/ \E v \in SearchValues : handleSearch(v) /\ UNCHANGED pageVars
    \/ \E id \in 1..MaxTimers : performSearch(id) /\ UNCHANGED pageVars
    \/ \E q \in SearchQueries : \E d \in Responses(ServerSearch(q)) :
          searchResponse(q, d) /\ UNCHANGED pageVars
    \/ \E f \in Filters : \E d \in Responses(ServerList(f)) :
          loadReportsResponse(f, d) /\ UNCHANGED pageVars
    \/ clearSearch /\ UNCHANGED pageVars
    \/ \E f \in Filters : filterReports(f) /\ UNCHANGED pageVars
    \/ tick /\ UNCHANGED pageVars

SpecSearch == Init /\ [][NextSearch]_vars

\* The highlight toggle with keywords responses that lack fields, one
\* keywords request at a time.
NextKeywords ==
    \/ \E id \in ReportIds : loadReport(id) /\ UNCHANGED <<fmtIn, fmtOut, hlIn, hlOut, searchVars, researchVars,
                       extraVars>>
    \/ \E id \in ReportIds, o \in Outcomes :
          loadReportResponse(id, o) /\ UNCHANGED <<fmtIn, fmtOut, hlIn, hlOut, searchVars, researchVars,
                       extraVars>>
    \/ PendingCount = 0 /\ toggleHighlights
          /\ UNCHANGED <<fmtIn, fmtOut, hlIn, hlOut, searchVars, researchVars,
                       extraVars>>
    \/ \E id \in ReportIds, o \in Outcomes, m \in Omissions :
          keywordsResponse(id, o, m) /\ UNCHANGED <<fmtIn, fmtOut, hlIn, hlOut, searchVars, researchVars,
                       extraVars>>

SpecKeywords == Init /\ [][NextKeywords]_vars

runVars == <<fmtIn, fmtOut, hlIn, hlOut>>

NextResearch ==
    \/ \E v \in TopicValues :
          typeTopic(v) /\ UNCHANGED <<runVars, extraVars, searchVars, lw>>
    \/ startResearch /\ UNCHANGED <<runVars, extraVars, searchVars, lw>>
    \/ \E id \in 1..MaxTimers :
          progressTick(id) /\ UNCHANGED <<runVars, extraVars, searchVars, lw>>
    \/ \E o \in ResearchOutcomes, r \in DOMAIN Reports :
          researchResponse(o, r) /\ UNCHANGED <<runVars, extraVars, searchVarsButLists, lw>>
    \/ \E id \in ReportIds :
          loadReport(id) /\ UNCHANGED <<runVars, extraVars, searchVars, researchVars>>
    \/ \E id \in ReportIds, o \in Outcomes :
          loadReportResponse(id, o) /\ UNCHANGED <<runVars, extraVars, searchVars, researchVars>>
    \/ \E f \in Filters : \E d \in Responses(ServerList(f)) :
          loadReportsResponse(f, d) /\ UNCHANGED pageVars

SpecResearch == Init /\ [][NextResearch]_vars

attemptVars == <<topicInput, submitBtn, progressActive, stepClasses,
                 progressInterval, intervals, pendingResearch, rh>>

\* Report loads and research requests that overlap, answered with reports
\* that have every field of a report, and the history of their responses.
NextLoads ==
    \/ \E v \in TopicValues :
          typeTopic(v) /\ UNCHANGED <<runVars, extraVars, searchVars, lw>>
    \/ startResearch /\ UNCHANGED <<runVars, extraVars, searchVars, lw>>
    \/ \E o \in ResearchOutcomes \ {"badReport"}, r \in DOMAIN Reports :
          /\ researchResponse(o, r)
          /\ lw' = lwAfterResearch(o, r)
          /\ UNCHANGED <<runVars, extraVars, searchVarsButLists>>
    \/ \E id \in ReportIds :
          loadReport(id) /\ UNCHANGED <<runVars, extraVars, searchVars, attemptVars, lw>>
    \/ \E id \in ReportIds, o \in Outcomes :
          /\ loadReportResponse(id, o)
          /\ lw' = lwAfterLoad(id, o)
          /\ UNCHANGED <<runVars, extraVars, searchVars, attemptVars>>
    \/ \E f \in Filters : \E d \in Responses(ServerList(f)) :
          loadReportsResponse(f, d) /\ UNCHANGED pageVars

SpecLoads == Init /\ [][NextLoads]_vars

\* the success response that holds the list
Success(list) == Response(FALSE, TRUE, Some(list))

\* The search box with its debounce timer, when every list and search
\* request is answered with success.
NextLatestSearch ==
    \/ \E v \in SearchValues : handleSearch(v) /\ UNCHANGED pageVars
    \/ \E id \in 1..MaxTimers : performSearch(id) /\ UNCHANGED pageVars
    \/ \E q \in SearchQueries :
          searchResponse(q, Success(ServerSearch(q))) /\ UNCHANGED pageVars
    \/ \E f \in Filters :
          loadReportsResponse(f, Success(ServerList(f))) /\ UNCHANGED pageVars
    \/ clearSearch /\ UNCHANGED pageVars
    \/ tick /\ UNCHANGED pageVars

SpecLatestSearch == Init /\ [][NextLatestSearch]_vars

\* The filter buttons and the report list, when every list request is
\* answered with success, on a page that loads the reports of the list.
NextFilter ==
    \/ \E f \in Filters : filterReports(f) /\ UNCHANGED pageVars
    \/ \E f \in Filters :
          loadReportsResponse(f, Success(ServerList(f))) /\ UNCHANGED pageVars
    \/ \E id \in ReportIds :
          loadReport(id) /\ UNCHANGED <<runVars, extraVars, searchVars, researchVars>>
    \/ \E id \in ReportIds, o \in Outcomes :
          loadReportResponse(id, o)
             /\ UNCHANGED <<runVars, extraVars, searchVars, researchVars>>

SpecFilter == Init /\ [][NextFilter]_vars

\* The handlers that need a current report, called while there is none, and
\* the research form, on a page whose report loads and research requests
\* may give it a report.
NextGuards ==
    \/ \E id \in ReportIds :
          loadReport(id) /\ UNCHANGED <<runVars, extraVars, searchVars, researchVars>>
    \/ \E id \in ReportIds, o \in Outcomes :
          loadReportResponse(id, o)
             /\ UNCHANGED <<runVars, extraVars, searchVars, researchVars>>
    \/ \E f \in Formats :
          /\ currentReport = NoReport
          /\ exportReport(f)
          /\ UNCHANGED <<runVars, searchVars, researchVars, themeVars, dashboardVars>>
    \/ /\ currentReport = NoReport
       /\ toggleBookmark
       /\ UNCHANGED <<runVars, searchVars, researchVars, themeVars, dashboardVars>>
    \/ /\ currentReport = NoReport
       /\ openHistory
       /\ UNCHANGED <<runVars, searchVars, researchVars, themeVars, dashboardVars>>
    \/ /\ currentReport = NoReport
       /\ toggleHighlights
       /\ UNCHANGED <<runVars, extraVars, searchVars, researchVars>>
    \/ \E v \in TopicValues :
          typeTopic(v) /\ UNCHANGED <<runVars, extraVars, searchVars, lw>>
    \/ startResearch /\ UNCHANGED <<runVars, extraVars, searchVars, lw>>
    \/ \E o \in ResearchOutcomes, r \in DOMAIN Reports :
          researchResponse(o, r)
             /\ UNCHANGED <<runVars, extraVars, searchVarsButLists, lw>>
    \/ \E f \in Filters :
          loadReportsResponse(f, Success(ServerList(f))) /\ UNCHANGED pageVars

SpecGuards == Init /\ [][NextGuards]_vars

\* Export, bookmark and version history of the reports the page loads.
NextTools ==
    \/ \E id \in ReportIds :
          loadReport(id) /\ UNCHANGED <<runVars, extraVars, searchVars, researchVars>>
    \/ \E id \in ReportIds, o \in Outcomes :
          loadReportResponse(id, o)
             /\ UNCHANGED <<runVars, extraVars, searchVars, researchVars>>
    \/ \E f \in Formats :
          exportReport(f)
             /\ UNCHANGED <<runVars, searchVars, researchVars, themeVars, dashboardVars>>
    \/ \E id \in ReportIds, f \in Formats, o \in ExportOutcomes :
          exportResponse(id, f, o)
             /\ UNCHANGED <<runVars, searchVars, researchVars, themeVars, dashboardVars>>
    \/ toggleBookmark
          /\ UNCHANGED <<runVars, searchVars, researchVars, themeVars, dashboardVars>>
    \/ \E id \in ReportIds, o \in Outcomes, fav \in BOOLEAN :
          bookmarkResponse(id, o, fav)
             /\ UNCHANGED <<runVars, searchVarsButLists, researchVars, themeVars,
                            dashboardVars>>
    \/ \E f \in Filters :
          loadReportsResponse(f, Success(ServerList(f))) /\ UNCHANGED pageVars
    \/ openHistory
          /\ UNCHANGED <<runVars, searchVars, researchVars, themeVars, dashboardVars>>
    \/ \E id \in ReportIds, o \in Outcomes :
          historyResponse(id, o)
             /\ UNCHANGED <<runVars, searchVars, researchVars, themeVars, dashboardVars>>

SpecTools == Init /\ [][NextTools]_vars

\* The dashboard, on a page that loads reports.
NextDashboard ==
    \/ \E id \in ReportIds :
          loadReport(id) /\ UNCHANGED <<runVars, extraVars, searchVars, researchVars>>
    \/ \E id \in ReportIds, o \in Outcomes :
          loadReportResponse(id, o)
             /\ UNCHANGED <<runVars, extraVars, searchVars, researchVars>>
    \/ openDashboard
          /\ UNCHANGED <<runVars, searchVars, researchVars, themeVars, toolVars>>
    \/ \E d \in AnalyticsResponses :
          analyticsResponse(d)
             /\ UNCHANGED <<runVars, searchVars, researchVars, themeVars, toolVars>>
    \/ closeDashboard
          /\ UNCHANGED <<runVars, searchVars, researchVars, themeVars, toolVars>>

SpecDashboard == Init /\ [][NextDashboard]_vars

\* The theme toggle and page loads, on a page that loads reports.
NextTheme ==
    \/ toggleTheme
          /\ UNCHANGED <<uiVars, runVars, searchVars, researchVars, toolVars,
                         dashboardVars>>
    \/ pageLoad /\ UNCHANGED runVars
    \/ \E id \in ReportIds :
          loadReport(id) /\ UNCHANGED <<runVars, extraVars, searchVars, researchVars>>
    \/ \E id \in ReportIds, o \in Outcomes :
          loadReportResponse(id, o)
             /\ UNCHANGED <<runVars, extraVars, searchVars, researchVars>>

SpecTheme == Init /\ [][NextTheme]_vars

-----------------------------------------------------------------------------
(* Properties of the highlight toggle (under Spec) *)

CurrentId == Reports[currentReport].id

JustDisabled ==
    /\ ev.op = "toggleHighlights"
    /\ currentReport # NoReport
    /\ ~highlightsEnabled

JustEnabled ==
    /\ ev.op = "toggleHighlights"
    /\ currentReport # NoReport
    /\ highlightsEnabled

\* C1: when highlighting is enabled on an unhighlighted display and then
\* disabled, the displayed content and summary are again what they were
\* immediately before the enabling.
C1_ToggleRoundTrip ==
    (JustDisabled /\ snap # Null /\ snap[1].summary.mode = "text")
        => Display = snap[1]

\* C2: whenever highlighting has just been disabled, the displayed content
\* and summary are the unhighlighted ones of the report displayed now.
C2_RestoresCurrentReport ==
    JustDisabled =>
        /\ contentEl = formatContent(Reports[currentReport].content)
        /\ summaryEl = TextNode(Reports[currentReport].summary)

\* C3: every application of highlights uses the keyword set that was fetched
\* for the id of the report displayed now.
C3_KeywordsOfCurrentReport ==
    ev.applied => kwFor = CurrentId

\* C4: while highlightsEnabled is false no original content or summary is
\* retained.
C4_NoSnapshotWhileOff ==
    ~highlightsEnabled =>
        originalContent = Undefined /\ originalSummary = Undefined

\* C5: once the keyword set of the current report has been fetched and
\* applied, a later enabling for that report sends no keywords request and
\* displays what that first enabling displayed.
C5_ReEnableRepeats ==
    (JustEnabled /\ firstHL[CurrentId] # Null)
        => ~ev.fetched /\ Display = firstHL[CurrentId][1]

-----------------------------------------------------------------------------
(* Properties of formatContent (under SpecFormat) *)

RECURSIVE SplitOn(_, _, _)
SplitOn(s, sep, i) ==
    LET M == {j \in i..Len(s) : StartsWithAt(s, j, sep)}
    IN  IF M = {} THEN <<SubSeq(s, i, Len(s))>>
        ELSE <<SubSeq(s, i, Min(M) - 1)>> \o SplitOn(s, sep, Min(M) + Len(sep))

Contains(s, p) == \E j \in 1..Len(s) : StartsWithAt(s, j, p)

Lines(s) == SplitOn(s, <<NL>>, 1)

\* a header line of the given level: the marker, a space, some text
HeaderLine(line, marker, open, close) ==
    IF StartsWith(line, marker) /\ Len(line) > Len(marker)
    THEN open \o SubSeq(line, Len(marker) + 1, Len(line)) \o close
    ELSE line

\* the **text** spans of one line, each the shortest one, left to right
RECURSIVE BoldSpans(_)
BoldSpans(line) ==
    LET spans == {<<b, e>> \in (1..Len(line)) \X (1..Len(line)) :
                     /\ StartsWithAt(line, b, Stars)
                     /\ StartsWithAt(line, e, Stars)
                     /\ e >= b + 3}
    IN  IF spans = {} THEN line
        ELSE LET b == Min({x[1] : x \in spans})
                 e == Min({x[2] : x \in {y \in spans : y[1] = b}})
             IN  SubSeq(line, 1, b - 1)
                     \o StrongOpen \o SubSeq(line, b + 2, e - 1) \o StrongClose
                     \o BoldSpans(SubSeq(line, e + 2, Len(line)))

\* the opening tag of a header element, <h1> to <h6>
StartsWithHeaderTag(p) ==
    /\ Len(p) >= 4
    /\ p[1] = "<" /\ p[2] = "h"
    /\ p[3] \in {"1", "2", "3", "4", "5", "6"}
    /\ p[4] \in {">", " "}

WrapUnlessHeader(p) ==
    IF StartsWithHeaderTag(p) THEN p ELSE POpen \o p \o PClose

WrapBlocks(s) ==
    LET blocks == SplitOn(s, <<NL, NL>>, 1)
    IN  Join([k \in 1..Len(blocks) |-> WrapUnlessHeader(blocks[k])], <<NL>>)

H2Line(line) == HeaderLine(line, <<"#", "#", " ">>, H2Open, H2Close)

H3Line(line) == HeaderLine(line, <<"#", "#", "#", " ">>, H3Open, H3Close)

H2Lines(s) == Join([k \in 1..Len(Lines(s)) |-> H2Line(Lines(s)[k])], <<NL>>)

H3Lines(s) == Join([k \in 1..Len(Lines(s)) |-> H3Line(Lines(s)[k])], <<NL>>)

BoldLines(s) == Join([k \in 1..Len(Lines(s)) |-> BoldSpans(Lines(s)[k])], <<NL>>)

\* the four rules, in their order
FormatRules(s) == WrapBlocks(BoldLines(H3Lines(H2Lines(s))))

Str_BoldText == <<"*", "*", "b", "o", "l", "d", "*", "*", " ", "t", "e", "x", "t">>
Str_BoldTextOut == POpen \o StrongOpen \o <<"b", "o", "l", "d">> \o StrongClose
                        \o <<" ", "t", "e", "x", "t">> \o PClose
Str_APlain == <<"#", "#", " ", "A", "\n", "\n", "p", "l", "a", "i", "n">>
Str_APlainOut == H2Open \o <<"A">> \o H2Close \o <<NL>>
                        \o POpen \o <<"p", "l", "a", "i", "n">> \o PClose
Str_H2Block == H2Open \o <<"A">> \o H2Close

\* C6: formatContent returns the result of the four rules applied in order
\* (level-2 headers, level-3 headers, bold spans, blocks wrapped in <p> unless
\* they start with a header tag), and "**bold** text" gives
\* "<p><strong>bold</strong> text</p>".
C6_FormatIsTheFourRules ==
    fmtOut # Pending =>
        /\ fmtOut[1] = FormatRules(fmtIn)
        /\ fmtIn = Str_BoldText => fmtOut[1] = Str_BoldTextOut

\* C7: a block that starts with a header tag is passed through unchanged,
\* every other block is wrapped in <p>...</p>; "## A\n\nplain" gives
\* "<h2>A</h2>\n<p>plain</p>" and an <h2> block is returned unchanged.
C7_OnlyHeaderBlocksUnwrapped ==
    fmtOut # Pending =>
        /\ fmtOut[1] = WrapBlocks(replaceBold(replaceH3(replaceH2(fmtIn)), 1))
        /\ fmtIn = Str_APlain => fmtOut[1] = Str_APlainOut
        /\ fmtIn = Str_H2Block => fmtOut[1] = Str_H2Block

IsBlank(w) == \A k \in 1..Len(w) : w[k] \in {" ", NL}

\* C8: the empty string gives "<p></p>", and a block of whitespace only is
\* wrapped in <p>...</p> with its whitespace kept: as the whole input, as the
\* last block and as the first block.
C8_EmptyAndBlankBlocks ==
    fmtOut # Pending =>
        LET in == fmtIn
            out == fmtOut[1]
            n == Len(in)
        IN  /\ in = <<>> => out = POpen \o PClose
            /\ (IsBlank(in) /\ ~Contains(in, <<NL, NL>>))
                   => out = POpen \o in \o PClose
            /\ \A i \in 1..(n - 1) :
                   LET x == SubSeq(in, 1, i - 1)
                       w == SubSeq(in, i + 2, n)
                   IN  (/\ StartsWithAt(in, i, <<NL, NL>>)
                        /\ (x = <<>> \/ x[Len(x)] # NL)
                        /\ IsBlank(w) /\ ~Contains(w, <<NL, NL>>))
                       => EndsWith(out, <<NL>> \o POpen \o w \o PClose)
            /\ \A i \in 1..(n - 1) :
                   LET w == SubSeq(in, 1, i - 1)
                   IN  (/\ StartsWithAt(in, i, <<NL, NL>>)
                        /\ IsBlank(w) /\ ~Contains(w, <<NL>>))
                       => StartsWith(out, POpen \o w \o PClose \o <<NL>>)

\* a run where a blank block follows a blank-line separator and another one
\* precedes it
C8_Witness ==
    /\ fmtOut # Pending
    /\ fmtIn = <<" ", NL, NL, " ">>
    /\ fmtOut[1] = POpen \o <<" ">> \o PClose \o <<NL>> \o POpen \o <<" ">> \o PClose

-----------------------------------------------------------------------------
(* Properties of the highlighter (under SpecHighlight) *)

RECURSIVE ConcatRange(_, _, _)
ConcatRange(f, lo, hi) ==
    IF lo > hi THEN <<>>
    ELSE IF lo = hi THEN f[lo]
    ELSE LET mid == (lo + hi) \div 2
         IN  ConcatRange(f, lo, mid) \o ConcatRange(f, mid + 1, hi)

\* the occurrences of the term in s that one replacement wraps: the matches
\* of the whole-word, case-insensitive pattern, left to right, none starting
\* inside an earlier one
RECURSIVE WrappedFrom(_, _, _)
WrappedFrom(s, term, i) ==
    LET cand == {j \in i..Len(s) : matchAt(s, j, term)}
    IN  IF cand = {} THEN {}
        ELSE LET first == Min(cand)
                 past == IF term = <<>> THEN first + 1 ELSE first + Len(term)
             IN  {first} \cup WrappedFrom(s, term, past)

WrappedStarts(s, term) == WrappedFrom(s, term, 1)

\* s with every wrapped occurrence of the term put between the marker's tags
WrapOccurrences(s, term, open) ==
    LET starts == WrappedStarts(s, term)
        piece == [j \in 1..Len(s) |->
                    (IF j \in starts THEN open ELSE <<>>)
                    \o <<s[j]>>
                    \o (IF (j - Len(term) + 1) \in starts THEN SpanClose ELSE <<>>)]
    IN  ConcatRange(piece, 1, Len(s))

\* all terms with their markers: entities, then technical, then keywords
MarkedTerms(kw) ==
    [k \in 1..Len(kw.entities) |-> <<kw.entities[k], EntityOpen>>]
    \o [k \in 1..Len(kw.technical) |-> <<kw.technical[k], TechnicalOpen>>]
    \o [k \in 1..Len(kw.keywords) |-> <<kw.keywords[k], KeywordOpen>>]

\* the text after the first n marked terms have been applied, one by one
AfterTerms(text, marked) ==
    LET step[n \in 0..Len(marked)] ==
            IF n = 0 THEN text
            ELSE WrapOccurrences(step[n - 1], marked[n][1], marked[n][2])
    IN  step[Len(marked)]

\* C9: the highlighted text is the sequential fold, over the entity terms,
\* then the technical terms, then the keyword terms, each in list order, of
\* wrapping every match of the term in the text produced so far (casing kept)
\* in the marker of the term's category.
C9_SequentialFold ==
    hlOut # Pending => hlOut[1] = AfterTerms(hlIn.text, MarkedTerms(hlIn.kw))

Str_AI == <<"A", "I">>
Str_ai == <<"a", "i">>
Str_fAIled == <<"f", "A", "I", "l", "e", "d">>
Str_AIaifAIled == <<"A", "I", " ", "a", "i", " ", "f", "A", "I", "l", "e", "d">>

\* a run where the same term is an entity and a keyword and matches twice:
\* the keyword marker ends up inside the entity marker, around "ai" as typed
C9_Witness ==
    /\ hlOut # Pending
    /\ hlIn.text = Str_AIaifAIled
    /\ hlIn.kw.entities = <<Str_AI>>
    /\ hlIn.kw.keywords = <<Str_AI>>
    /\ Contains(hlOut[1], EntityOpen \o KeywordOpen \o Str_ai \o SpanClose \o SpanClose)
    /\ Contains(hlOut[1], EntityOpen \o KeywordOpen \o Str_AI \o SpanClose \o SpanClose)

\* the term occurs at position j of s, in any letter casing
OccursAt(s, j, term) ==
    /\ j + Len(term) - 1 <= Len(s)
    /\ \A k \in 1..Len(term) : Canonicalize(s[j + k - 1]) = Canonicalize(term[k])

\* the occurrence at position j has a word character right before or after it
TouchesWord(s, j, term) ==
    \/ j >= 2 /\ IsWordChar(s[j - 1])
    \/ j + Len(term) <= Len(s) /\ IsWordChar(s[j + Len(term)])

OneEntity(kw, term) ==
    kw = [entities |-> <<term>>, technical |-> <<>>, keywords |-> <<>>]

\* C10: a term matches an occurrence, in any casing, only when the occurrence
\* is not preceded or followed by a word character: a text where every
\* occurrence touches a word character is left as it is; "AI" matches "AI"
\* and "ai" but not the "AI" inside "fAIled".
C10_WholeWordsOnly ==
    hlOut # Pending =>
        /\ \A term \in Terms :
               (/\ OneEntity(hlIn.kw, term)
                /\ \A j \in 1..Len(hlIn.text) :
                       OccursAt(hlIn.text, j, term) => TouchesWord(hlIn.text, j, term))
               => hlOut[1] = hlIn.text
        /\ (OneEntity(hlIn.kw, Str_AI) /\ hlIn.text \in {Str_AI, Str_ai})
               => hlOut[1] = EntityOpen \o hlIn.text \o SpanClose
        /\ (OneEntity(hlIn.kw, Str_AI) /\ hlIn.text = Str_fAIled)
               => hlOut[1] = hlIn.text

Str_Cpp == <<"C", "+", "+">>

\* the occurrences of the term in s that stand alone: no word character
\* right before or right after
StandaloneStarts(s, term) ==
    {j \in 1..Len(s) : OccursAt(s, j, term) /\ ~TouchesWord(s, j, term)}

\* s with the n characters at each of the given positions put between the
\* marker's tags
WrapAt(s, starts, n, open) ==
    LET piece == [j \in 1..Len(s) |->
                    (IF j \in starts THEN open ELSE <<>>)
                    \o <<s[j]>>
                    \o (IF (j - n + 1) \in starts THEN SpanClose ELSE <<>>)]
    IN  ConcatRange(piece, 1, Len(s))

\* C11: with the one term "C++", every standalone occurrence of "C++" in the
\* text (followed by a space, punctuation or the end of the text) is wrapped
\* in the marker span, and nothing else is wrapped.
C11_MetacharTermLiteral ==
    (hlOut # Pending /\ OneEntity(hlIn.kw, Str_Cpp))
        => hlOut[1] = WrapAt(hlIn.text, StandaloneStarts(hlIn.text, Str_Cpp),
                             Len(Str_Cpp), EntityOpen)

-----------------------------------------------------------------------------
(* Properties of the sidebar (under SpecSearch) *)

-----------------------------------------------------------------------------
(* Properties of a research attempt (under SpecResearch) *)

\* some progress step gets the class active in this step
Activates ==
    \E n \in DOMAIN stepClasses :
        "active" \in stepClasses'[n] /\ "active" \notin stepClasses[n]

\* this step is a run of an interval timer's callback
TickStep == ev'.op = "progressTick" /\ intervals' # intervals

\* C13: a progress step is activated only by a tick of the interval timer,
\* never by the handling of a response; an attempt activates at most 4
\* steps; the tick after the fourth activation activates nothing and stops
\* the timer.
C13_ProgressOnOwnTimer ==
    [][/\ Activates => TickStep
       /\ rh'.activated <= 4
       /\ (TickStep /\ rh.activated = 4) => (~Activates /\ intervals' = {})]_vars

\* the timer has stopped itself after four steps, the request still pending
C13_Witness ==
    /\ ev.op = "progressTick"
    /\ rh.activated = 4
    /\ intervals = {}
    /\ pendingResearch # Null

\* C14: the steps become active in the order search, extract, analyze,
\* write; at most one step is active at a time, and while a step is active
\* every earlier step is completed (and no longer active).
C14_StepsInOrder ==
    /\ Cardinality({n \in DOMAIN stepClasses : "active" \in stepClasses[n]}) <= 1
    /\ \A k \in DOMAIN steps :
           "active" \in stepClasses[steps[k]] =>
               /\ k = rh.activated
               /\ \A j \in 1..(k - 1) : stepClasses[steps[j]] = {"completed"}

\* the last step is active, the three before it are completed
C14_Witness ==
    /\ stepClasses["write"] = {"active"}
    /\ stepClasses["search"] = {"completed"}
    /\ stepClasses["extract"] = {"completed"}
    /\ stepClasses["analyze"] = {"completed"}

\* C15: the submit button is disabled only while the attempt's request is
\* in flight, and the handling of its response leaves the button enabled
\* whatever the outcome: success, rejected fetch, status not ok,
\* {success: false}, or an exception while the report is displayed.
C15_SubmitReenabled ==
    /\ submitBtn.disabled => pendingResearch # Null
    /\ ev.op = "researchResponse" => submitBtn = SubmitReady

\* an attempt whose report could not be displayed has re-enabled the button
C15_Witness ==
    /\ ev.op = "researchResponse"
    /\ rh.outcome = "badReport"
    /\ ~submitBtn.disabled

\* C16: an attempt that fails by a rejected fetch, a status that is not ok
\* or {success: false} shows exactly one error notification, hides the
\* progress indicator, leaves the current report as it was and sends no
\* further request.
C16_FailureHandledOnce ==
    (ev.op = "researchResponse" /\ rh.outcome \in {"rejected", "httpError", "nosuccess"})
        => /\ ev.notes = 1
           /\ rh.successes = 0
           /\ ~progressActive
           /\ \A n \in DOMAIN stepClasses : stepClasses[n] = {}
           /\ currentReport = rh.before
           /\ pendingResearch = Null

\* a failed attempt, made while a report was displayed and after the
\* progress indicator had moved
C16_Witness ==
    /\ ev.op = "researchResponse"
    /\ rh.outcome = "httpError"
    /\ rh.activated >= 2
    /\ currentReport # NoReport
    /\ ~progressActive

\* C20: a success response with a report makes that report the current one
\* and fills the title, the summary, the word count and the source count
\* from it, with one item per source in the sources list, in the order of
\* the report's sources, and empties the topic box.
C20_ResearchDisplaysReport ==
    (ev.op = "researchResponse" /\ rh.outcome = "ok")
        => LET report == Reports[rh.report]
           IN  /\ currentReport = rh.report
               /\ titleEl = Some(report.title)
               /\ summaryEl = TextNode(report.summary)
               /\ wordCountEl = Some(report.word_count)
               /\ sourceCountEl = Some(Len(report.sources))
               /\ Len(sourcesList) = Len(report.sources)
               /\ \A k \in 1..Len(report.sources) :
                      /\ sourcesList[k].href = report.sources[k].url
                      /\ sourcesList[k].title = report.sources[k].title
                      /\ sourcesList[k].domain = report.sources[k].source
               /\ topicInput = <<>>

\* the report with two sources has replaced the other report
C20_Witness ==
    /\ ev.op = "researchResponse"
    /\ rh.outcome = "ok"
    /\ rh.report = 1
    /\ rh.before = 2
    /\ Len(sourcesList) = 2

-----------------------------------------------------------------------------
(* Properties of failed and incomplete responses *)

\* C17 (under Spec): when the request of a single report load or of the
\* keywords ends in a failure (rejected fetch, {success: false}), an error
\* notification is shown.
C17_EveryFailureNotified ==
    ev.op \in {"loadReportFailed", "keywordsFailed"} => ev.notes >= 1

\* the keyword set a response for the report gives when it lacks the fields
\* of the set missing: an empty list for each of them
WithDefaults(id, missing) ==
    [f \in KeywordFields |-> IF f \in missing THEN <<>> ELSE ServerKeywords(id)[f]]

\* C18 (under SpecKeywords): when a success response to the keywords request
\* lacks some of the fields keywords, entities and technical, the cached set
\* has an empty list for each missing field, the highlights are applied
\* without error, and the text shows the terms of the other fields only:
\* with all three missing it is the original text.
C18_MissingFieldsDefault ==
    (ev.op = "keywordsResponse" /\ ev.missing # {})
        => /\ keywords = Some(WithDefaults(kwFor, ev.missing))
           /\ ev.applied
           /\ originalContent # Undefined
           /\ contentEl = AfterTerms(originalContent[1],
                                     MarkedTerms(WithDefaults(kwFor, ev.missing)))
           /\ summaryEl = HtmlNode(AfterTerms(originalSummary[1],
                                     MarkedTerms(WithDefaults(kwFor, ev.missing))))
           /\ ev.missing = KeywordFields
                  => contentEl = originalContent[1]

\* report 1's response lacked its entities: "ml" is marked as a keyword in
\* the summary, "AI" is not marked
C18_Witness ==
    /\ ev.op = "keywordsResponse"
    /\ ev.missing = {"entities"}
    /\ kwFor = 1
    /\ currentReport = 1
    /\ summaryEl = HtmlNode(<<"A", "I", " ">> \o KeywordOpen \o <<"m", "l">> \o SpanClose)

\* C19 (under SpecSearch): this.reports is always a list, possibly empty,
\* never a missing value, also after a success response that lacks the
\* reports field.
C19_ReportsAlwaysList ==
    reports # Undefined

-----------------------------------------------------------------------------
(* Properties of overlapping report requests (under SpecLoads) *)

\* every report field on display is that of the report stored at index r
ShownIs(r) ==
    /\ currentReport = r
    /\ titleEl = Some(Reports[r].title)
    /\ summaryEl = TextNode(Reports[r].summary)
    /\ wordCountEl = Some(Reports[r].word_count)
    /\ sourceCountEl = Some(Len(Reports[r].sources))
    /\ contentEl = formatContent(Reports[r].content)
    /\ sourcesList = sourceItems(Reports[r].sources)

AllReportResponsesHandled == pendingLoads = {} /\ pendingResearch = Null

-----------------------------------------------------------------------------
(* Properties of the theme (under SpecTheme) *)

\* C22: after any sequence of toggleTheme calls the value stored under
\* 'theme' is "dark" exactly when dark mode is displayed and "light"
\* otherwise, and after the next page load dark mode is displayed exactly
\* when the stored value is "dark".
C22_ThemeSurvivesReload ==
    /\ th.toggles > 0 =>
          theme = IF darkMode THEN Some("dark") ELSE Some("light")
    /\ th.op = "pageLoad" => (darkMode <=> theme = Some("dark"))

\* The theme was toggled and the page has just been loaded again: dark mode
\* is displayed on the new page, which shows no report.
C22_Witness ==
    /\ th.op = "pageLoad"
    /\ th.toggles > 0
    /\ darkMode
    /\ currentReport = NoReport
    /\ ev.op = "init"

-----------------------------------------------------------------------------
(* Properties of interleaved highlight toggles (under Spec) *)

\* the displayed content holds a marker span
ShowsMarker ==
    \E open \in {EntityOpen, TechnicalOpen, KeywordOpen} :
        \E j \in 1..Len(contentEl) : StartsWithAt(contentEl, j, open)

\* C23: under any interleaving of toggleHighlights calls, once every call
\* has finished (no keywords request is in flight, and a call has just
\* ended) the displayed content is highlighted exactly when
\* highlightsEnabled is true, and the button reads 'Disable Highlights'
\* exactly when highlightsEnabled is true.
C23_TogglesAgree ==
    (/\ PendingCount = 0
     /\ currentReport # NoReport
     /\ ev.op \in {"toggleHighlights", "keywordsResponse"})
        => /\ (btnText = "Disable Highlights") <=> highlightsEnabled
           /\ ShowsMarker <=> highlightsEnabled

\* C24 (under SpecKeywords): when enabling highlights fails because the
\* keywords request fails, the highlighting state is as it was before the
\* attempt: highlightsEnabled is false, the button reads 'Enable Highlights',
\* and the displayed content and summary are unchanged.
C24_FailedEnableLeavesState ==
    (ev.op = "keywordsFailed" /\ snap # Null)
        => /\ ~highlightsEnabled
           /\ btnText = "Enable Highlights"
           /\ Display = snap[1]

-----------------------------------------------------------------------------
(* Properties of the sidebar when responses arrive in any order *)

\* no debounce timer is set and no list or search request is in flight
SidebarQuiet == timeouts = {} /\ InFlight = 0

\* C25 (under SpecLatestSearch): once all debounce timers and all list and
\* search requests have completed, the sidebar shows what the latest search
\* action asks for: the results of the query and search mode when the query
\* has at least 2 characters, the list of the current filter and no search
\* mode after clearSearch or with a shorter query.
C25_LatestSearchShown ==
    SidebarQuiet =>
        IF Len(searchQuery) >= 2
        THEN /\ listEl = renderSearchResults(ServerSearch(searchQuery), searchQuery)
             /\ searchActive
        ELSE /\ listEl = renderReportsList(ServerList(currentFilter), currentFilter)
             /\ ~searchActive

\* C26 (under SpecFilter): with no search active, once all list requests
\* have completed the sidebar list is the one fetched for the current
\* filter.
C26_ListOfCurrentFilter ==
    (SidebarQuiet /\ searchQuery = <<>> /\ ~searchActive)
        => listEl = renderReportsList(ServerList(currentFilter), currentFilter)

-----------------------------------------------------------------------------
(* Properties of the progress timer (under SpecResearch) *)

\* C27: at most one progress timer is running at any time, and when no
\* research attempt is under way (none was made, or the last one has
\* finished with success or failure) no progress timer is running, the
\* progress container is inactive and no progress step is marked active or
\* completed.
C27_ProgressStopsWithAttempt ==
    /\ Cardinality(intervals) <= 1
    /\ pendingResearch = Null =>
          /\ intervals = {}
          /\ ~progressActive
          /\ \A n \in DOMAIN stepClasses : stepClasses[n] = {}

\* A failed research attempt has finished after its timer had marked two
\* steps, on a page that displays a report: no timer is left.
C27_Witness ==
    /\ pendingResearch = Null
    /\ rh.outcome \in {"rejected", "httpError", "nosuccess"}
    /\ rh.activated >= 2
    /\ rh.before # NoReport
    /\ intervals = {}

-----------------------------------------------------------------------------
(* Properties of the handlers that need a report or a topic (under SpecGuards) *)

\* the handlers that return at once when there is no current report
NeedReport == {"exportReport", "toggleHighlights", "toggleBookmark", "openHistory"}

\* the client state: every field, element, timer and request
clientState ==
    <<displayVars, highlightVars, pendingLoads, searchVars, researchVars,
      extraVars>>

\* the topic box is empty or holds white space only
BlankTopic == \A k \in DOMAIN topicInput : topicInput[k] \in WhiteSpace

\* C28: while there is no current report, exportReport, toggleHighlights,
\* toggleBookmark and openHistory each send no request, show one error
\* notification and change no client state; startResearch with an empty or
\* whitespace-only topic likewise sends no request and does not disable the
\* submit button. (A step that leaves ev as it was is not one of a handler
\* that notes its run in ev.)
C28_NothingWithoutReportOrTopic ==
    [][/\ (currentReport = NoReport /\ ev' # ev /\ ev'.op \in NeedReport)
            => (ev'.notes = 1 /\ UNCHANGED clientState)
       /\ (ev' # ev /\ ev'.op = "startResearch" /\ BlankTopic)
            => /\ ev'.notes = 1
               /\ UNCHANGED clientState
               /\ ~submitBtn'.disabled
               /\ pendingResearch' = Null]_vars

\* startResearch has just returned on a topic of white space, on a page
\* without a current report whose load is still in flight.
C28_Witness ==
    /\ ev.op = "startResearch"
    /\ ev.notes = 1
    /\ topicInput # <<>>
    /\ currentReport = NoReport
    /\ pendingLoads # {}
    /\ pendingResearch = Null

-----------------------------------------------------------------------------
(* Properties of the highlighter over formatted content (under SpecMarkup) *)

\* a tag opens at position i of s: "<" before a letter or "/", closed later
TagOpensAt(s, i) ==
    /\ s[i] = "<"
    /\ i < Len(s)
    /\ s[i + 1] \in LowerChars \cup Range(UpperCase) \cup {"/"}
    /\ \E j \in (i + 1)..Len(s) : s[j] = ">"

\* the markup as the browser reads it: its tags, and between them the
\* characters of its text, one item each
RECURSIVE Items(_, _)
Items(s, i) ==
    LET opens == {j \in i..Len(s) : TagOpensAt(s, j)}
        upTo == IF opens = {} THEN Len(s) ELSE Min(opens) - 1
        text == [k \in 1..(upTo - i + 1) |->
                    [tag |-> FALSE, s |-> <<s[i + k - 1]>>]]
    IN  IF opens = {} THEN text
        ELSE LET o == Min(opens)
                 e == Min({j \in (o + 1)..Len(s) : s[j] = ">"})
             IN  text \o <<[tag |-> TRUE, s |-> SubSeq(s, o, e)]>>
                      \o Items(s, e + 1)

\* the tags of the marker spans
MarkerTags == {EntityOpen, TechnicalOpen, KeywordOpen, SpanClose}

IsMarkerTag(item) == item.tag /\ item.s \in MarkerTags

\* the markup with its marker spans taken out, their text kept
WithoutMarkers(s) == SelectSeq(Items(s, 1), LAMBDA item : ~IsMarkerTag(item))

\* C29: highlighting only puts marker spans around term occurrences of the
\* text: no term is matched inside a tag of the formatted content or inside
\* the markup of a marker put in for an earlier term, so the highlighted
\* output without its marker spans is the original content.
C29_OnlyMarkersAdded ==
    hlOut # Pending => WithoutMarkers(hlOut[1]) = Items(hlIn.text, 1)

-----------------------------------------------------------------------------
(* Properties of the dashboard (under SpecDashboard) *)

\* C30: the sources list of the report shows the sources of the current
\* report; opening, rendering or closing the dashboard leaves the displayed
\* report (title, summary, content, sources list) unchanged.
C30_DashboardLeavesReport ==
    currentReport # NoReport =>
        /\ sourcesList = sourceItems(Reports[currentReport].sources)
        /\ titleEl = Some(Reports[currentReport].title)
        /\ summaryEl = TextNode(Reports[currentReport].summary)
        /\ contentEl = formatContent(Reports[currentReport].content)

====
